---- MODULE Spec2Model ----
(***************************************************************************)
(* Connection editing on the node instances of one chigraph GraphFunction  *)
(* (src/lib/core/src/NodeInstance.cpp): the constructor, setType,          *)
(* connectData, connectExec, disconnectData and disconnectExec.            *)
(*                                                                         *)
(* Port indices are 0-based as in the source; a vector is a sequence and   *)
(* slot id of vector v is v[id + 1].                                       *)
(***************************************************************************)
EXTENDS Integers, Sequences, FiniteSets, TLC

\* ------------------------------------------------------------------ bounds

\* Number of edit calls (connect*, disconnect*, setType) explored per run.
MaxEdits == 3

\* ------------------------------------------------- node instances and types

\* The node instances of the function under edit.
Nodes == {"n1", "n2", "n3"}

\* nullptr in a connection pair.
NoNode == "nullptr"

\* ~0ull, the index stored beside nullptr.
NoID == -1

\* std::pair<NodeInstance*, size_t>
Conn(n, id) == [node |-> n, id |-> id]

\* {nullptr, ~0ull}
NullConn == Conn(NoNode, NoID)

\* The node types a node instance can be given.  A NodeType is its pure
\* flag, its data ports (the DataType of each, in port order) and its exec
\* port names; a pure type has no exec ports.
NodeTypes ==
    [ const  |-> [pure |-> TRUE,  dataInputs |-> << >>,
                  dataOutputs |-> <<"i32">>,
                  execInputs |-> << >>, execOutputs |-> << >>],
      call   |-> [pure |-> FALSE, dataInputs |-> <<"i32", "i32">>,
                  dataOutputs |-> <<"i32">>,
                  execInputs |-> <<"">>, execOutputs |-> <<"">>],
      fcall  |-> [pure |-> FALSE, dataInputs |-> <<"f64", "i32">>,
                  dataOutputs |-> <<"i32">>,
                  execInputs |-> <<"">>, execOutputs |-> <<"">>],
      branch |-> [pure |-> FALSE, dataInputs |-> <<"i32">>,
                  dataOutputs |-> << >>,
                  execInputs |-> <<"">>, execOutputs |-> <<"True", "False">>] ]

TypeNames == DOMAIN NodeTypes

\* The port lists of a NodeType.
Ports(t) == {NodeTypes[t].dataInputs, NodeTypes[t].dataOutputs,
             NodeTypes[t].execInputs, NodeTypes[t].execOutputs}

\* The widest vector a node of the catalogue can have.
MaxArity ==
    CHOOSE m \in 0 .. 8 :
        /\ \A t \in TypeNames : \A p \in Ports(t) : Len(p) <= m
        /\ \E t \in TypeNames : \E p \in Ports(t) : Len(p) = m

\* The port indices a caller passes: every index some vector has, and
\* MaxArity, which is past the end of every vector.
ConnIDs == 0 .. MaxArity

\* ------------------------------------------------------------ vector helpers

\* std::vector::resize(n, fill)
Resize(v, n, fill) == [k \in 1 .. n |-> IF k <= Len(v) THEN v[k] ELSE fill]

\* std::vector::erase(begin() + (k - 1))
EraseAt(v, k) == SubSeq(v, 1, k - 1) \o SubSeq(v, k + 1, Len(v))

\* The elements of a vector.
Range(v) == {v[k] : k \in 1 .. Len(v)}

\* std::find_if: position of the first element of v in the set S, 0 for end().
FindFirst(v, S) ==
    IF \E k \in 1 .. Len(v) : v[k] \in S
    THEN CHOOSE k \in 1 .. Len(v) :
             /\ v[k] \in S
             /\ \A j \in 1 .. (k - 1) : v[j] \notin S
    ELSE 0

\* ------------------------------------------------------------------- state

VARIABLES
    mType,                  \* node -> name of its current NodeType
    inputDataConnections,   \* node -> vector of pair
    outputDataConnections,  \* node -> vector of vector of pair
    inputExecConnections,   \* node -> vector of vector of pair
    outputExecConnections,  \* node -> vector of pair
    status,                 \* "running", or how the process ended
    last,                   \* the last edit call and what it returned
    edits,                  \* number of edit calls made
    mLastEditTime           \* the owning module's last-edit timestamp

\* A FunctionCompiler made by compileFunction for the function of the nodes.
VARIABLES
    pc,                     \* where compileFunction stands
    validated,              \* the validate argument initialize was given
    mInitialized,           \* FunctionCompiler::mInitialized
    mLLFunction,            \* the LLVM function has been created
    mAllocBlock,            \* the alloc block: created, its allocas, its br
    nodesToCompile,         \* the deque of compile()
    enqueued,               \* number of emplace_back calls on the deque
    mNodeCompilers,         \* node -> its NodeCompiler, once created
    calls,                  \* the compile_stage1 / compile_stage2 calls made
    result,                 \* the Result so far: "ok", "error", "undefined"
    previous                \* the calls of the compilation made before

CompilerVars == <<pc, validated, mInitialized, mLLFunction, mAllocBlock,
                  nodesToCompile, enqueued, mNodeCompilers, calls, result, previous>>

\* The Context that owns the modules.
VARIABLES
    mWorkspacePath,         \* Context::mWorkspacePath, "" for none
    mModules,               \* Context::mModules, by full name
    mLangModule,            \* Context::mLangModule is not nullptr
    mDependencies,          \* full name of a loaded module -> dependencies()
    mCompileCache,          \* Context::mCompileCache: the names compiled
    toFill                  \* the modules linked into compileModule's output

ContextVars == <<mWorkspacePath, mModules, mLangModule, mDependencies,
                 mCompileCache, toFill>>

\* The GraphModule made by newGraphModule("test/main").
VARIABLES
    mFunctions,             \* GraphModule::functions(), by name
    mStructs                \* GraphModule::structs(), by name

ModuleVars == <<mFunctions, mStructs>>

\* The chi process started from a command line.
VARIABLES
    argv,                   \* the arguments after argv[0]
    vm,                     \* the variables_map: option key -> values stored
    cwd,                    \* the working directory of the process
    mainPc,                 \* where main stands
    dispatched,             \* the command function main called, "" if none
    exitCode                \* what main returned

CliVars == <<argv, vm, cwd, mainPc, dispatched, exitCode>>

vars == <<mType, inputDataConnections, outputDataConnections,
          inputExecConnections, outputExecConnections, status, last, edits,
          mLastEditTime, CompilerVars, ContextVars, ModuleVars, CliVars>>

\* The connection state as one value g, threaded through the operations.
Graph == [type |-> mType,
          inD  |-> inputDataConnections,
          outD |-> outputDataConnections,
          inE  |-> inputExecConnections,
          outE |-> outputExecConnections]

\* type() of node n in g.
TypeOf(g, n) == NodeTypes[g.type[n]]

\* ------------------------------------------------------------ construction

\* NodeInstance::NodeInstance: vectors sized to the type's arities, exec
\* vectors only for a non-pure type.
NewInputData(t) == Resize(<< >>, Len(NodeTypes[t].dataInputs), NullConn)

NewOutputData(t) == Resize(<< >>, Len(NodeTypes[t].dataOutputs), << >>)

NewInputExec(t) ==
    IF ~NodeTypes[t].pure
    THEN Resize(<< >>, Len(NodeTypes[t].execInputs), << >>)
    ELSE << >>

NewOutputExec(t) ==
    IF ~NodeTypes[t].pure
    THEN Resize(<< >>, Len(NodeTypes[t].execOutputs), NullConn)
    ELSE << >>

\* NodeInstance::NodeInstance(other, id), the copy: the exec vectors are
\* sized to the type's exec port lists whatever its pure flag.
CopyInputExec(t) == Resize(<< >>, Len(NodeTypes[t].execInputs), << >>)

CopyOutputExec(t) == Resize(<< >>, Len(NodeTypes[t].execOutputs), NullConn)

\* ---------------------------------------------------------- disconnectData

\* What a call returns: the graph after it, whether the Result is success,
\* the code of its (last) error entry, and whether the call read a slot
\* that does not exist or followed a null target (undefined behaviour).
Ret(g, ok, code) == [g |-> g, ok |-> ok, code |-> code, ub |-> FALSE]

Undefined(g, code) == [g |-> g, ok |-> FALSE, code |-> code, ub |-> TRUE]

\* disconnectData without the check of lines 280-285 that rhs's input slot
\* points back at (lhs, lhsConnID).
disconnectDataNoDualCheck(g, lhs, lhsConnID, rhs) ==
    IF lhsConnID >= Len(g.outD[lhs])
    THEN Ret(g, FALSE, "E22")
    ELSE
    LET slot == g.outD[lhs][lhsConnID + 1]
        iter == FindFirst(slot, {c \in Range(slot) : c.node = rhs})
    IN  IF iter = 0
        THEN Ret(g, FALSE, "EUKN")
        ELSE
        LET second == slot[iter].id
        IN  IF Len(g.inD[rhs]) <= second
            THEN Ret(g, FALSE, "E23")
            ELSE
            LET g1 == [g  EXCEPT !.inD[rhs][second + 1] = NullConn]
                g2 == [g1 EXCEPT !.outD[lhs][lhsConnID + 1] =
                                     EraseAt(slot, iter)]
            IN  Ret(g2, TRUE, "")

\* disconnectData(lhs, lhsConnID, rhs)
disconnectData(g, lhs, lhsConnID, rhs) ==
    IF lhsConnID >= Len(g.outD[lhs])
    THEN Ret(g, FALSE, "E22")
    ELSE
    LET slot == g.outD[lhs][lhsConnID + 1]
        iter == FindFirst(slot, {c \in Range(slot) : c.node = rhs})
    IN  IF iter = 0
        THEN Ret(g, FALSE, "EUKN")
        ELSE
        LET second == slot[iter].id
        IN  IF Len(g.inD[rhs]) <= second
            THEN Ret(g, FALSE, "E23")
            ELSE IF g.inD[rhs][second + 1] # Conn(lhs, lhsConnID)
            THEN Ret(g, FALSE, "EUKN")
            ELSE
            LET g1 == [g  EXCEPT !.inD[rhs][second + 1] = NullConn]
                g2 == [g1 EXCEPT !.outD[lhs][lhsConnID + 1] =
                                     EraseAt(slot, iter)]
            IN  Ret(g2, TRUE, "")

\* ------------------------------------------------------------- connectData

\* connectData with the type check of lines 165-172 made after the output
\* side has been written.
connectDataLateTypeCheck(g, lhs, lhsConnID, rhs, rhsConnID) ==
    LET e22 == lhsConnID >= Len(g.outD[lhs])
        e23 == rhsConnID >= Len(g.inD[rhs])
    IN  IF e22 \/ e23
        THEN Ret(g, FALSE, IF e23 THEN "E23" ELSE "E22")
        ELSE
        LET replacing == g.inD[rhs][rhsConnID + 1].node # NoNode
            d  == IF replacing
                  THEN disconnectData(g, lhs, lhsConnID, rhs)
                  ELSE Ret(g, TRUE, "")
        IN  IF ~d.ok
            THEN Ret(d.g, FALSE, d.code)
            ELSE
            LET g1 == [d.g EXCEPT !.outD[lhs][lhsConnID + 1] =
                                      Append(@, Conn(rhs, rhsConnID))]
                g2 == [g1  EXCEPT !.inD[rhs][rhsConnID + 1] =
                                      Conn(lhs, lhsConnID)]
            IN  IF TypeOf(g, lhs).dataOutputs[lhsConnID + 1]
                       # TypeOf(g, rhs).dataInputs[rhsConnID + 1]
                THEN Ret(g1, FALSE, "E24")
                ELSE Ret(g2, TRUE, "")

\* connectData(lhs, lhsConnID, rhs, rhsConnID)
connectData(g, lhs, lhsConnID, rhs, rhsConnID) ==
    LET e22 == lhsConnID >= Len(g.outD[lhs])
        e23 == rhsConnID >= Len(g.inD[rhs])
    IN  IF e22 \/ e23
        THEN Ret(g, FALSE, IF e23 THEN "E23" ELSE "E22")
        ELSE IF TypeOf(g, lhs).dataOutputs[lhsConnID + 1]
                    # TypeOf(g, rhs).dataInputs[rhsConnID + 1]
        THEN Ret(g, FALSE, "E24")
        ELSE
        LET replacing == g.inD[rhs][rhsConnID + 1].node # NoNode
            d  == IF replacing
                  THEN disconnectData(g, lhs, lhsConnID, rhs)
                  ELSE Ret(g, TRUE, "")
        IN  IF ~d.ok
            THEN Ret(d.g, FALSE, d.code)
            ELSE
            LET g1 == [d.g EXCEPT !.outD[lhs][lhsConnID + 1] =
                                      Append(@, Conn(rhs, rhsConnID))]
                g2 == [g1  EXCEPT !.inD[rhs][rhsConnID + 1] =
                                      Conn(lhs, lhsConnID)]
            IN  Ret(g2, TRUE, "")

\* ---------------------------------------------------------- disconnectExec

\* disconnectExec(lhs, lhsConnID).  After the E22 entry there is no return:
\* outputExecConnections[lhsConnID] is read whatever lhsConnID is, and the
\* target pointer it holds is followed whether or not it is null.
disconnectExec(g, lhs, lhsConnID) ==
    IF lhsConnID >= Len(g.outE[lhs])
    THEN Undefined(g, "E22")
    ELSE
    LET lhsconn == g.outE[lhs][lhsConnID + 1]
    IN  IF lhsconn.node = NoNode
        THEN Undefined(g, "EUKN")
        ELSE IF lhsconn.id >= Len(g.inE[lhsconn.node])
        THEN Undefined(g, "EUKN")
        ELSE
        LET rhsconns == g.inE[lhsconn.node][lhsconn.id + 1]
            iter     == FindFirst(rhsconns, {Conn(lhs, lhsConnID)})
        IN  IF iter = 0
            THEN Ret(g, FALSE, "EUKN")
            ELSE
            LET g1 == [g  EXCEPT !.inE[lhsconn.node][lhsconn.id + 1] =
                                     EraseAt(rhsconns, iter)]
                g2 == [g1 EXCEPT !.outE[lhs][lhsConnID + 1] = NullConn]
            IN  Ret(g2, TRUE, "")

\* ------------------------------------------------------------- connectExec

\* connectExec without the disconnect of lines 217-220: the old target keeps
\* its entry for (lhs, lhsConnID).
connectExecKeepsOldTarget(g, lhs, lhsConnID, rhs, rhsConnID) ==
    LET e22 == lhsConnID >= Len(g.outE[lhs])
        e23 == rhsConnID >= Len(g.inE[rhs])
    IN  IF e22 \/ e23
        THEN Ret(g, FALSE, IF e23 THEN "E23" ELSE "E22")
        ELSE
        LET g1 == [g  EXCEPT !.outE[lhs][lhsConnID + 1] =
                                 Conn(rhs, rhsConnID)]
            g2 == [g1 EXCEPT !.inE[rhs][rhsConnID + 1] =
                                 Append(@, Conn(lhs, lhsConnID))]
        IN  Ret(g2, TRUE, "")

\* connectExec with line 224 an assignment, as for a data input: the input
\* port keeps its newest source only.
connectExecSingleInput(g, lhs, lhsConnID, rhs, rhsConnID) ==
    LET e22 == lhsConnID >= Len(g.outE[lhs])
        e23 == rhsConnID >= Len(g.inE[rhs])
    IN  IF e22 \/ e23
        THEN Ret(g, FALSE, IF e23 THEN "E23" ELSE "E22")
        ELSE
        LET replacing == g.outE[lhs][lhsConnID + 1].node # NoNode
            d  == IF replacing
                  THEN disconnectExec(g, lhs, lhsConnID)
                  ELSE Ret(g, TRUE, "")
        IN  IF d.ub
            THEN d
            ELSE IF ~d.ok
            THEN Ret(d.g, FALSE, d.code)
            ELSE
            LET g1 == [d.g EXCEPT !.outE[lhs][lhsConnID + 1] =
                                      Conn(rhs, rhsConnID)]
                g2 == [g1  EXCEPT !.inE[rhs][rhsConnID + 1] =
                                      <<Conn(lhs, lhsConnID)>>]
            IN  Ret(g2, TRUE, "")

\* A mistaken connectExec that makes room for an exec input rhs does not
\* have instead of reporting E23.
connectExecGrowsInput(g, lhs, lhsConnID, rhs, rhsConnID) ==
    IF lhsConnID >= Len(g.outE[lhs])
    THEN Ret(g, FALSE, "E22")
    ELSE Ret([g EXCEPT !.outE[lhs][lhsConnID + 1] = Conn(rhs, rhsConnID),
                       !.inE[rhs] =
                           [Resize(@, IF rhsConnID >= Len(@)
                                      THEN rhsConnID + 1 ELSE Len(@), << >>)
                               EXCEPT ![rhsConnID + 1] =
                                          Append(@, Conn(lhs, lhsConnID))]],
             TRUE, "")

\* connectExec(lhs, lhsConnID, rhs, rhsConnID)
connectExec(g, lhs, lhsConnID, rhs, rhsConnID) ==
    LET e22 == lhsConnID >= Len(g.outE[lhs])
        e23 == rhsConnID >= Len(g.inE[rhs])
    IN  IF e22 \/ e23
        THEN Ret(g, FALSE, IF e23 THEN "E23" ELSE "E22")
        ELSE
        LET replacing == g.outE[lhs][lhsConnID + 1].node # NoNode
            d  == IF replacing
                  THEN disconnectExec(g, lhs, lhsConnID)
                  ELSE Ret(g, TRUE, "")
        IN  IF d.ub
            THEN d
            ELSE IF ~d.ok
            THEN Ret(d.g, FALSE, d.code)
            ELSE
            LET g1 == [d.g EXCEPT !.outE[lhs][lhsConnID + 1] =
                                      Conn(rhs, rhsConnID)]
                g2 == [g1  EXCEPT !.inE[rhs][rhsConnID + 1] =
                                      Append(@, Conn(lhs, lhsConnID))]
            IN  Ret(g2, TRUE, "")

\* ----------------------------------------------------------------- setType

\* A step of setType: the graph so far and how the step ended: "ok", "abort"
\* (a failed assert in a build with asserts), "hang" (a while loop that can
\* no longer make progress in a build without them) or "undefined".
Step(g, out) == [g |-> g, out |-> out]

\* Lines 62-68: empty inputExecConnections[id] by disconnecting its first
\* entry until none is left.
RECURSIVE DrainInputExec(_, _, _, _)
DrainInputExec(g, n, id, ndebug) ==
    LET slot == g.inE[n][id + 1]
    IN  IF slot = << >>
        THEN Step(g, "ok")
        ELSE IF slot[1].node = NoNode
        THEN Step(g, IF ndebug THEN "undefined" ELSE "abort")
        ELSE
        LET res == disconnectExec(g, slot[1].node, slot[1].id)
        IN  IF res.ub
            THEN Step(g, "undefined")
            ELSE IF ~res.ok
            THEN Step(g, IF ndebug THEN "hang" ELSE "abort")
            ELSE DrainInputExec(res.g, n, id, ndebug)

\* Lines 61-69: the exec inputs from newType's count up.
RECURSIVE PruneInputExec(_, _, _, _)
PruneInputExec(g, n, id, ndebug) ==
    IF id >= Len(g.inE[n])
    THEN Step(g, "ok")
    ELSE
    LET s == DrainInputExec(g, n, id, ndebug)
    IN  IF s.out # "ok" THEN s ELSE PruneInputExec(s.g, n, id + 1, ndebug)

\* Line 70, reached when the loop before it ended "ok".
ResizeInputExec(s, n, size) ==
    IF s.out # "ok"
    THEN s
    ELSE Step([s.g EXCEPT !.inE[n] = Resize(@, size, << >>)], "ok")

\* Lines 61-70
SetTypeInputExec(s, n, newType, ndebug) ==
    IF s.out # "ok"
    THEN s
    ELSE ResizeInputExec(
             PruneInputExec(s.g, n, Len(NodeTypes[newType].execInputs), ndebug),
             n, Len(NodeTypes[newType].execInputs))

\* Lines 72-75: the exec outputs from newType's count up; the Result of
\* disconnectExec is dropped.
RECURSIVE PruneOutputExec(_, _, _)
PruneOutputExec(g, n, id) ==
    IF id >= Len(g.outE[n])
    THEN Step(g, "ok")
    ELSE IF g.outE[n][id + 1].node = NoNode
    THEN PruneOutputExec(g, n, id + 1)
    ELSE
    LET res == disconnectExec(g, n, id)
    IN  IF res.ub
        THEN Step(g, "undefined")
        ELSE PruneOutputExec(res.g, n, id + 1)

\* Line 76
ResizeOutputExec(s, n, size) ==
    IF s.out # "ok"
    THEN s
    ELSE Step([s.g EXCEPT !.outE[n] = Resize(@, size, NullConn)], "ok")

\* Lines 72-76
SetTypeOutputExec(s, n, newType) ==
    IF s.out # "ok"
    THEN s
    ELSE ResizeOutputExec(
             PruneOutputExec(s.g, n, Len(NodeTypes[newType].execOutputs)),
             n, Len(NodeTypes[newType].execOutputs))

\* Lines 78-101: each data input in slot order, read as the loop reaches it.
RECURSIVE PruneInputData(_, _, _, _, _)
PruneInputData(g, n, newType, id, ndebug) ==
    IF id >= Len(g.inD[n])
    THEN Step(g, "ok")
    ELSE
    LET conn == g.inD[n][id + 1]
        new  == NodeTypes[newType].dataInputs
    IN  IF conn.node = NoNode
        THEN PruneInputData(g, n, newType, id + 1, ndebug)
        ELSE IF /\ Len(new) > id
                /\ TypeOf(g, n).dataInputs[id + 1] = new[id + 1]
        THEN PruneInputData(g, n, newType, id + 1, ndebug)
        ELSE
        LET res == disconnectData(g, conn.node, conn.id, n)
        IN  IF ~res.ok /\ ~ndebug
            THEN Step(g, "abort")
            ELSE PruneInputData(res.g, n, newType, id + 1, ndebug)

\* setType without the resize of line 102.
ResizeInputDataSkipped(s, n, size) == s

\* Line 102
ResizeInputData(s, n, size) ==
    IF s.out # "ok"
    THEN s
    ELSE Step([s.g EXCEPT !.inD[n] = Resize(@, size, NullConn)], "ok")

\* Lines 78-102
SetTypeInputData(s, n, newType, ndebug) ==
    IF s.out # "ok"
    THEN s
    ELSE ResizeInputData(PruneInputData(s.g, n, newType, 0, ndebug),
                         n, Len(NodeTypes[newType].dataInputs))

\* Lines 113-119: empty outputDataConnections[id] by disconnecting its first
\* entry until none is left.
RECURSIVE DrainOutputData(_, _, _, _)
DrainOutputData(g, n, id, ndebug) ==
    LET connSlot == g.outD[n][id + 1]
    IN  IF connSlot = << >>
        THEN Step(g, "ok")
        ELSE IF connSlot[1].node = NoNode
        THEN Step(g, IF ndebug THEN "undefined" ELSE "abort")
        ELSE
        LET res == disconnectData(g, n, id, connSlot[1].node)
        IN  IF ~res.ok
            THEN Step(g, IF ndebug THEN "hang" ELSE "abort")
            ELSE DrainOutputData(res.g, n, id, ndebug)

\* Lines 104-121
RECURSIVE PruneOutputData(_, _, _, _, _)
PruneOutputData(g, n, newType, id, ndebug) ==
    IF id >= Len(g.outD[n])
    THEN Step(g, "ok")
    ELSE
    LET new == NodeTypes[newType].dataOutputs
    IN  IF /\ Len(new) > id
           /\ TypeOf(g, n).dataOutputs[id + 1] = new[id + 1]
        THEN PruneOutputData(g, n, newType, id + 1, ndebug)
        ELSE
        LET s == DrainOutputData(g, n, id, ndebug)
        IN  IF s.out # "ok"
            THEN s
            ELSE PruneOutputData(s.g, n, newType, id + 1, ndebug)

\* Line 122
ResizeOutputData(s, n, size) ==
    IF s.out # "ok"
    THEN s
    ELSE Step([s.g EXCEPT !.outD[n] = Resize(@, size, << >>)], "ok")

\* Lines 104-122
SetTypeOutputData(s, n, newType, ndebug) ==
    IF s.out # "ok"
    THEN s
    ELSE ResizeOutputData(PruneOutputData(s.g, n, newType, 0, ndebug),
                          n, Len(NodeTypes[newType].dataOutputs))

\* Lines 124-125
AssignType(s, n, newType) ==
    IF s.out # "ok"
    THEN s
    ELSE Step([s.g EXCEPT !.type[n] = newType], "ok")

\* NodeInstance::setType(newType), in a build with asserts (ndebug = FALSE)
\* or without them (ndebug = TRUE): the four loops in the order of the
\* source, each entered only if the call is still running.
setType(g, n, newType, ndebug) ==
    AssignType(
        SetTypeOutputData(
            SetTypeInputData(
                SetTypeOutputExec(
                    SetTypeInputExec(Step(g, "ok"), n, newType, ndebug),
                    n, newType),
                n, newType, ndebug),
            n, newType, ndebug),
        n, newType)

\* ----------------------------------------------------------------- actions

\* The record of a call: the operation and what came back.  ok: the Result
\* is success (for setType: the call returned); code: the code of its error
\* entry; replaced: the call took its "replacing a connection" branch; ub:
\* the call read a slot that does not exist or followed a null target.
Call(op, ok, code, replaced, ub) ==
    [op |-> op, ok |-> ok, code |-> code, replaced |-> replaced, ub |-> ub]

NoCall == Call("none", TRUE, "", FALSE, FALSE)

\* The vectors and types after a call.
Commit(g) ==
    /\ mType' = g.type
    /\ inputDataConnections' = g.inD
    /\ outputDataConnections' = g.outD
    /\ inputExecConnections' = g.inE
    /\ outputExecConnections' = g.outE

\* Context::Context(workPath): no module is loaded.
NewContext(workPath) ==
    /\ mWorkspacePath = workPath
    /\ mModules = << >>
    /\ mLangModule = FALSE
    /\ mDependencies = << >>
    /\ mCompileCache = {}
    /\ toFill = << >>

\* The module owns no function and no struct.
NoModuleContents ==
    /\ mFunctions = << >>
    /\ mStructs = << >>

\* The directory the process is started in.
StartDir == "/home"

\* No exit code: main has not returned.
NoExit == -1

\* No command line is being handled.
NoCommandLine ==
    /\ argv = << >>
    /\ vm = << >>
    /\ cwd = StartDir
    /\ mainPc = "none"
    /\ dispatched = ""
    /\ exitCode = NoExit

\* No FunctionCompiler exists while the function is under edit.
NoCompiler ==
    /\ pc = "none"
    /\ validated = FALSE
    /\ mInitialized = FALSE
    /\ mLLFunction = FALSE
    /\ mAllocBlock = [created |-> FALSE, allocas |-> {}, br |-> << >>]
    /\ nodesToCompile = << >>
    /\ enqueued = 0
    /\ mNodeCompilers = << >>
    /\ calls = << >>
    /\ result = "ok"
    /\ previous = [done |-> FALSE, calls |-> << >>]

\* The clock: the time of the call being made, one tick per edit call.
Now == edits + 1

\* A mistaken updateLastEditTime that keeps the old timestamp.
updateLastEditTimeStale(t, now) == t

\* GraphModule::updateLastEditTime, the first statement of every edit
\* operation: the timestamp becomes the time of the call.
updateLastEditTime(t, now) == now

\* An edit call is made by a running process, within the explored depth.
CanEdit == status = "running" /\ edits < MaxEdits

\* The function under edit as constructed: a pure constant and two calls,
\* no connection made yet.  setType gives the nodes the other types.
InitialTypes == [n1 |-> "const", n2 |-> "call", n3 |-> "call"]

\* Each node is made by the constructor or as a copy of a node of its type.
Init ==
    /\ mType = InitialTypes
    /\ inputDataConnections = [n \in Nodes |-> NewInputData(mType[n])]
    /\ outputDataConnections = [n \in Nodes |-> NewOutputData(mType[n])]
    /\ \E copies \in SUBSET Nodes :
           /\ inputExecConnections =
                  [n \in Nodes |-> IF n \in copies
                                   THEN CopyInputExec(mType[n])
                                   ELSE NewInputExec(mType[n])]
           /\ outputExecConnections =
                  [n \in Nodes |-> IF n \in copies
                                   THEN CopyOutputExec(mType[n])
                                   ELSE NewOutputExec(mType[n])]
    /\ status = "running"
    /\ last = NoCall
    /\ edits = 0
    /\ mLastEditTime = 0
    /\ NoCompiler
    /\ NewContext("")
    /\ NoModuleContents
    /\ NoCommandLine

ConnectData ==
    \E lhs \in Nodes, rhs \in Nodes, lhsConnID \in ConnIDs, rhsConnID \in ConnIDs :
        LET res == connectData(Graph, lhs, lhsConnID, rhs, rhsConnID)
            replaced ==
                /\ rhsConnID < Len(inputDataConnections[rhs])
                /\ inputDataConnections[rhs][rhsConnID + 1].node # NoNode
        IN  /\ CanEdit
            /\ Commit(res.g)
            /\ last' = Call("connectData", res.ok, res.code, replaced, FALSE)
            /\ edits' = edits + 1
            /\ mLastEditTime' = updateLastEditTime(mLastEditTime, Now)
            /\ UNCHANGED <<CompilerVars, ContextVars, ModuleVars, CliVars>>
            /\ UNCHANGED status

DisconnectData ==
    \E lhs \in Nodes, rhs \in Nodes, lhsConnID \in ConnIDs :
        LET res == disconnectData(Graph, lhs, lhsConnID, rhs)
        IN  /\ CanEdit
            /\ Commit(res.g)
            /\ last' = Call("disconnectData", res.ok, res.code, FALSE, FALSE)
            /\ edits' = edits + 1
            /\ mLastEditTime' = updateLastEditTime(mLastEditTime, Now)
            /\ UNCHANGED <<CompilerVars, ContextVars, ModuleVars, CliVars>>
            /\ UNCHANGED status

ConnectExec ==
    \E lhs \in Nodes, rhs \in Nodes, lhsConnID \in ConnIDs, rhsConnID \in ConnIDs :
        LET res == connectExec(Graph, lhs, lhsConnID, rhs, rhsConnID)
            replaced ==
                /\ lhsConnID < Len(outputExecConnections[lhs])
                /\ outputExecConnections[lhs][lhsConnID + 1].node # NoNode
        IN  /\ CanEdit
            /\ Commit(res.g)
            /\ last' = Call("connectExec", res.ok, res.code, replaced, res.ub)
            /\ edits' = edits + 1
            /\ mLastEditTime' = updateLastEditTime(mLastEditTime, Now)
            /\ UNCHANGED <<CompilerVars, ContextVars, ModuleVars, CliVars>>
            /\ status' = IF res.ub THEN "undefined" ELSE status

\* A call whose behaviour is undefined either ends the process (or worse:
\* status "undefined", nothing more is said about it), or reads garbage in
\* which the pair is not found and returns its error entries.
DisconnectExec ==
    \E lhs \in Nodes, lhsConnID \in ConnIDs :
        LET res == disconnectExec(Graph, lhs, lhsConnID)
        IN  /\ CanEdit
            /\ Commit(res.g)
            /\ last' = Call("disconnectExec", res.ok, res.code, FALSE, res.ub)
            /\ edits' = edits + 1
            /\ mLastEditTime' = updateLastEditTime(mLastEditTime, Now)
            /\ UNCHANGED <<CompilerVars, ContextVars, ModuleVars, CliVars>>
            /\ \/ status' = status
               \/ res.ub /\ status' = "undefined"

SetType ==
    \E n \in Nodes, newType \in TypeNames, ndebug \in BOOLEAN :
        LET s == setType(Graph, n, newType, ndebug)
        IN  /\ CanEdit
            /\ Commit(s.g)
            /\ last' = Call("setType", s.out = "ok", s.out, FALSE,
                            s.out = "undefined")
            /\ edits' = edits + 1
            /\ mLastEditTime' = updateLastEditTime(mLastEditTime, Now)
            /\ UNCHANGED <<CompilerVars, ContextVars, ModuleVars, CliVars>>
            /\ status' = CASE s.out = "ok"    -> "running"
                           [] s.out = "abort" -> "aborted"
                           [] s.out = "hang"  -> "hung"
                           [] OTHER           -> "undefined"

Next ==
    \/ ConnectData
    \/ DisconnectData
    \/ ConnectExec
    \/ DisconnectExec
    \/ SetType

Spec == Init /\ [][Next]_vars

\* ------------------------------------------------------ the compiled function

\* The node types of a compiled function besides those under edit above: a
\* pure node with an input, the entry node (no exec input, one exec output,
\* the function's data input as its data output), the exit node, and a node
\* with two exec inputs.
FunctionNodeTypes ==
    [ neg    |-> [pure |-> TRUE,  dataInputs |-> <<"i32">>,
                  dataOutputs |-> <<"i32">>,
                  execInputs |-> << >>, execOutputs |-> << >>],
      entry  |-> [pure |-> FALSE, dataInputs |-> << >>,
                  dataOutputs |-> <<"i32">>,
                  execInputs |-> << >>, execOutputs |-> <<"">>],
      exit   |-> [pure |-> FALSE, dataInputs |-> <<"i32">>,
                  dataOutputs |-> << >>,
                  execInputs |-> <<"">>, execOutputs |-> << >>],
      merge  |-> [pure |-> FALSE, dataInputs |-> << >>,
                  dataOutputs |-> << >>,
                  execInputs |-> <<"a", "b">>, execOutputs |-> <<"">>] ]

AllNodeTypes == NodeTypes @@ FunctionNodeTypes

\* The node instances of the function compiled.
FunctionNodes == Nodes \cup {"n0"}

\* node.type() in the function g.
NodeTypeOf(g, n) == AllNodeTypes[g.type[n]]

\* The functions compiled, by the types of their nodes: entry, a pure
\* constant, a call, exit; the same with a branch; two pure nodes that can feed
\* each other; a branch and a node with two exec inputs; and a function
\* without an entry node.
FunctionShapes ==
    { [n0 |-> "entry", n1 |-> "const", n2 |-> "call",   n3 |-> "exit"],
      [n0 |-> "entry", n1 |-> "const", n2 |-> "branch", n3 |-> "exit"],
      [n0 |-> "entry", n1 |-> "neg",   n2 |-> "neg",    n3 |-> "exit"],
      [n0 |-> "entry", n1 |-> "exit",  n2 |-> "branch", n3 |-> "merge"],
      [n0 |-> "exit",  n1 |-> "const", n2 |-> "exit",   n3 |-> "exit"] }

\* What an output exec slot can hold: nothing, or an exec input of a node.
ExecTargets(types) ==
    {NullConn} \cup
    {c \in {Conn(m, i) : m \in FunctionNodes, i \in ConnIDs} :
        c.id < Len(AllNodeTypes[types[c.node]].execInputs)}

\* What an input data slot of DataType ty can hold: nothing, or a data output
\* of that type.
DataSources(types, ty) ==
    {NullConn} \cup
    {c \in {Conn(m, o) : m \in FunctionNodes, o \in ConnIDs} :
        /\ c.id < Len(AllNodeTypes[types[c.node]].dataOutputs)
        /\ AllNodeTypes[types[c.node]].dataOutputs[c.id + 1] = ty}

\* The outputExecConnections node n can have.
ExecWirings(types, n) ==
    [1 .. Len(AllNodeTypes[types[n]].execOutputs) -> ExecTargets(types)]

\* The inputDataConnections node n can have.
DataWirings(types, n) ==
    [1 .. Len(AllNodeTypes[types[n]].dataInputs) -> DataSources(types, "i32")]

\* A set of pairs as a vector, in a fixed order.
RECURSIVE SeqOf(_)
SeqOf(S) ==
    IF S = {} THEN << >>
    ELSE LET c == CHOOSE x \in S : TRUE
         IN  <<c>> \o SeqOf(S \ {c})

\* The other end of the connections: connectData and connectExec store every
\* edge on both of its nodes.
DualOutputData(types, inD) ==
    [n \in FunctionNodes |->
        [o \in 1 .. Len(AllNodeTypes[types[n]].dataOutputs) |->
            SeqOf({c \in {Conn(m, i) : m \in FunctionNodes, i \in ConnIDs} :
                      /\ c.id < Len(inD[c.node])
                      /\ inD[c.node][c.id + 1] = Conn(n, o - 1)})]]

DualInputExec(types, outE) ==
    [n \in FunctionNodes |->
        [i \in 1 .. Len(AllNodeTypes[types[n]].execInputs) |->
            SeqOf({c \in {Conn(m, o) : m \in FunctionNodes, o \in ConnIDs} :
                      /\ c.id < Len(outE[c.node])
                      /\ outE[c.node][c.id + 1] = Conn(n, i - 1)})]]

\* GraphFunction::entryNode(): the node of type entry, nullptr without one.
entryNode(g) ==
    IF \E n \in DOMAIN g.type : g.type[n] = "entry"
    THEN CHOOSE n \in DOMAIN g.type : g.type[n] = "entry"
    ELSE NoNode

\* GraphFunction::localVariables(), by the names of their allocas.
LocalVariables == {"var_x"}

\* The nodes the output exec connections of n lead to.
ExecSuccessors(g, n) == {c.node : c \in Range(g.outE[n])} \ {NoNode}

\* The pure nodes connected to the data inputs of n.
PureSources(g, n) ==
    {m \in {c.node : c \in Range(g.inD[n])} \ {NoNode} : NodeTypeOf(g, m).pure}

\* The nodes reached from those of S along exec edges, S included.
RECURSIVE ExecClosure(_, _)
ExecClosure(g, S) ==
    LET T == S \cup UNION {ExecSuccessors(g, n) : n \in S}
    IN  IF T = S THEN S ELSE ExecClosure(g, T)

\* The pure nodes that feed those of S through pure nodes, S included.
RECURSIVE PureClosure(_, _)
PureClosure(g, S) ==
    LET T == S \cup UNION {PureSources(g, n) : n \in S}
    IN  IF T = S THEN S ELSE PureClosure(g, T)

\* validateFunction: one entry and an exit; every data input of a non-pure
\* node reachable from entry connected; no exec cycle; no pure cycle.
validateFunction(g) ==
    /\ Cardinality({n \in DOMAIN g.type : g.type[n] = "entry"}) = 1
    /\ \E n \in DOMAIN g.type : g.type[n] = "exit"
    /\ \A n \in ExecClosure(g, {entryNode(g)}) :
           \A k \in 1 .. Len(g.inD[n]) : g.inD[n][k] # NullConn
    /\ \A n \in DOMAIN g.type :
           n \notin ExecClosure(g, ExecSuccessors(g, n))
    /\ \A n \in DOMAIN g.type :
           NodeTypeOf(g, n).pure =>
               n \notin PureClosure(g, PureSources(g, n))

\* dependentPuresRecursive(node): the pure nodes that feed node's data
\* inputs, directly or through pure nodes, each once, a node after the pure
\* nodes it depends on.  acc is the order so far, busy the nodes whose
\* inputs are being walked.
RECURSIVE PuresFeeding(_, _, _, _, _)
PuresFeeding(g, n, id, acc, busy) ==
    IF id >= Len(g.inD[n]) THEN acc
    ELSE LET src == g.inD[n][id + 1].node
             skip == \/ src = NoNode
                     \/ ~NodeTypeOf(g, src).pure
                     \/ src \in Range(acc)
                     \/ src \in busy
         IN  PuresFeeding(g, n, id + 1,
                 IF skip THEN acc
                 ELSE Append(PuresFeeding(g, src, 0, acc, busy \cup {src}), src),
                 busy)

dependentPuresRecursive(g, node) == PuresFeeding(g, node, 0, << >>, {node})

\* ------------------------------------------------------- FunctionCompiler

\* The FunctionCompiler as one value fc, threaded through its operations.
Compiler ==
    [mInitialized   |-> mInitialized,
     mLLFunction    |-> mLLFunction,
     mAllocBlock    |-> mAllocBlock,
     nodesToCompile |-> nodesToCompile,
     enqueued       |-> enqueued,
     mNodeCompilers |-> mNodeCompilers,
     calls          |-> calls,
     result         |-> result]

\* FunctionCompiler::FunctionCompiler
NewCompiler ==
    [mInitialized   |-> FALSE,
     mLLFunction    |-> FALSE,
     mAllocBlock    |-> [created |-> FALSE, allocas |-> {}, br |-> << >>],
     nodesToCompile |-> << >>,
     enqueued       |-> 0,
     mNodeCompilers |-> << >>,
     calls          |-> << >>,
     result         |-> "ok"]

\* The alloc block as initialize makes it.
NewAllocBlock ==
    [created |-> TRUE,
     allocas |-> {"pure_jumpback"} \cup LocalVariables,
     br      |-> << >>]

\* A mistaken initialize that creates the function and the alloc block
\* before it validates and looks for the entry node.
initializeCreatesFirst(fc, g, validate) ==
    LET made == [fc EXCEPT !.mInitialized = TRUE,
                           !.mLLFunction = TRUE,
                           !.mAllocBlock = NewAllocBlock]
    IN  IF validate /\ ~validateFunction(g)
        THEN [made EXCEPT !.result = "error"]
        ELSE IF entryNode(g) = NoNode
        THEN [made EXCEPT !.result = "error"]
        ELSE made

\* FunctionCompiler::initialize
initialize(fc, g, validate) ==
    LET started == [fc EXCEPT !.mInitialized = TRUE]
    IN  IF validate /\ ~validateFunction(g)
        THEN [started EXCEPT !.result = "error"]
        ELSE IF entryNode(g) = NoNode
        THEN [started EXCEPT !.result = "error"]
        ELSE [started EXCEPT !.mLLFunction = TRUE,
                             !.mAllocBlock = NewAllocBlock]

\* NodeCompiler{*this, node}: no input exec id has a first block (stage 1)
\* or is compiled (stage 2).
NewNodeCompiler == [stage1 |-> {}, compiled |-> {}]

\* FunctionCompiler::getOrCreateNodeCompiler
getOrCreateNodeCompiler(fc, node) ==
    IF node \in DOMAIN fc.mNodeCompilers
    THEN fc
    ELSE [fc EXCEPT !.mNodeCompilers = @ @@ (node :> NewNodeCompiler)]

\* A call of a NodeCompiler: the stage, the node and input exec id, the node
\* whose compilation asked for it, whether it returned success, and the
\* output blocks it was given.
Called(stage, node, id, user, ok, blocks) ==
    [stage |-> stage, node |-> node, id |-> id, user |-> user, ok |-> ok,
     blocks |-> blocks]

\* depCompiler->firstBlock(id): the block stage 1 made for the input exec
\* id, as the pair it belongs to; no block without stage 1.
firstBlock(fc, node, id) ==
    IF node \in DOMAIN fc.mNodeCompilers
       /\ id \in fc.mNodeCompilers[node].stage1
    THEN Conn(node, id)
    ELSE NullConn

\* compiler->compile_stage1(id) on the NodeCompiler of node.
compile_stage1(fc, node, id, user) ==
    [fc EXCEPT !.mNodeCompilers[node].stage1 = @ \cup {id},
               !.calls = Append(@, Called("stage1", node, id, user, TRUE,
                                         << >>))]

\* res += compiler->compile_stage2(blocks, id) on the NodeCompiler of node;
\* ok: codegen succeeds.
compile_stage2(fc, node, blocks, id, user, ok) ==
    [fc EXCEPT !.mNodeCompilers[node].compiled =
                   IF ok THEN @ \cup {id} ELSE @,
               !.calls = Append(@, Called("stage2", node, id, user, ok,
                                          blocks)),
               !.result = IF ok THEN @ ELSE "error"]

\* A mistaken loop that goes on to the next pure node after an error.
RECURSIVE CompilePuresNoReturn(_, _, _, _, _)
CompilePuresNoReturn(fc, depPures, k, node, fails) ==
    IF k > Len(depPures) THEN fc
    ELSE CompilePuresNoReturn(
             compile_stage2(getOrCreateNodeCompiler(fc, depPures[k]),
                            depPures[k], << >>, 0, node,
                            depPures[k] \notin fails),
             depPures, k + 1, node, fails)

\* The loop of the lambda compilePureDependencies from depPures[k] on.
RECURSIVE CompilePures(_, _, _, _, _)
CompilePures(fc, depPures, k, node, fails) ==
    IF k > Len(depPures) \/ fc.result # "ok" THEN fc
    ELSE CompilePures(
             compile_stage2(getOrCreateNodeCompiler(fc, depPures[k]),
                            depPures[k], << >>, 0, node,
                            depPures[k] \notin fails),
             depPures, k + 1, node, fails)

\* The lambda compilePureDependencies of compile().
compilePureDependencies(fc, g, node, fails) ==
    CompilePures(fc, dependentPuresRecursive(g, node), 1, node, fails)

\* outputBlocks.push_back(block)
PushOutputBlock(fc, block) ==
    [fc EXCEPT !.outputBlocks = Append(@, block)]

\* A mistaken loop body that takes the first block of the output node
\* without running its stage 1.
StageOneOutputSkipped(fc, conn, user) ==
    IF fc.result # "ok" THEN fc
    ELSE PushOutputBlock(getOrCreateNodeCompiler(fc, conn.node),
                         firstBlock(getOrCreateNodeCompiler(fc, conn.node),
                                    conn.node, conn.id))

\* Stage 1 of the node an output exec connection leads to, once its pure
\* dependencies are compiled, and its first block collected.
StageOneOutput(fc, conn, user) ==
    IF fc.result # "ok" THEN fc
    ELSE LET staged == compile_stage1(getOrCreateNodeCompiler(fc, conn.node),
                                      conn.node, conn.id, user)
         IN  PushOutputBlock(staged, firstBlock(staged, conn.node, conn.id))

\* "make sure the output nodes have done stage 1": the loop over
\* node.outputExecConnections from conns[k] on.  An unconnected output is
\* {nullptr, ~0ull} and *conn.first is undefined.
RECURSIVE StageOneOutputs(_, _, _, _, _, _)
StageOneOutputs(fc, g, conns, k, node, fails) ==
    IF k > Len(conns) \/ fc.result # "ok" THEN fc
    ELSE IF conns[k].node = NoNode
    THEN [fc EXCEPT !.result = "undefined"]
    ELSE StageOneOutputs(
             StageOneOutput(
                 compilePureDependencies(fc, g, conns[k].node, fails),
                 conns[k], node),
             g, conns, k + 1, node, fails)

\* A mistaken "recurse" that puts the output connections at the front of
\* the deque.
RecurseAtFront(fc, g, node) ==
    IF fc.result # "ok" THEN fc
    ELSE [fc EXCEPT !.nodesToCompile = g.outE[node] \o Tail(@),
                    !.enqueued = @ + Len(g.outE[node])]

\* A mistaken "recurse" that puts every output connection on the deque
\* twice.
RecurseTwice(fc, g, node) ==
    IF fc.result # "ok" THEN fc
    ELSE [fc EXCEPT !.nodesToCompile =
                        Tail(@ \o g.outE[node] \o g.outE[node]),
                    !.enqueued = @ + 2 * Len(g.outE[node])]

\* "recurse" and "pop it off": the output connections go to the end of the
\* deque and its front is removed.
Recurse(fc, g, node) ==
    IF fc.result # "ok" THEN fc
    ELSE [fc EXCEPT !.nodesToCompile = Tail(@ \o g.outE[node]),
                    !.enqueued = @ + Len(g.outE[node])]

\* "compile this one"
CompileThisOne(fc, g, node, inputExecID, fails) ==
    IF fc.result # "ok" THEN fc
    ELSE Recurse(compile_stage2(fc, node, fc.outputBlocks, inputExecID,
                                node, node \notin fails),
                 g, node)

\* The body of the while loop for a node not compiled yet.
CompileBody(fc, g, node, inputExecID, fails) ==
    IF fc.result # "ok" THEN fc
    ELSE CompileThisOne(
             StageOneOutputs([outputBlocks |-> << >>] @@ fc,
                             g, g.outE[node], 1, node, fails),
             g, node, inputExecID, fails)

\* A mistaken loop body that compiles the front pair whether or not it is
\* compiled already.
compileNodeAgain(fc, g, fails) ==
    CompileBody(
        compilePureDependencies(
            getOrCreateNodeCompiler(fc, fc.nodesToCompile[1].node),
            g, fc.nodesToCompile[1].node, fails),
        g, fc.nodesToCompile[1].node, fc.nodesToCompile[1].id, fails)

\* One pass of the while loop of compile() on the front of the deque;
\* fails: the nodes whose codegen returns an error in this pass.
compileNode(fc, g, fails) ==
    LET node        == fc.nodesToCompile[1].node
        inputExecID == fc.nodesToCompile[1].id
        got         == getOrCreateNodeCompiler(fc, node)
    IN  IF inputExecID \in got.mNodeCompilers[node].compiled
        THEN [got EXCEPT !.nodesToCompile = Tail(@)]
        ELSE CompileBody(compilePureDependencies(got, g, node, fails),
                         g, node, inputExecID, fails)

\* compile() up to its loop: the deque holds (entry, 0).
compile(fc, g) ==
    [fc EXCEPT !.nodesToCompile = <<Conn(entryNode(g), 0)>>,
               !.enqueued = 1]

\* A mistaken end of compile() that branches whatever the Result is.
finishCompileAlways(fc, g) ==
    [fc EXCEPT !.mAllocBlock.br = Append(@, Conn(entryNode(g), 0))]

\* compile() after its loop: the alloc block branches to the first block of
\* the entry node for input exec id 0.
finishCompile(fc, g) ==
    IF fc.result # "ok" THEN fc
    ELSE [fc EXCEPT !.mAllocBlock.br = Append(@, Conn(entryNode(g), 0))]

\* The FunctionCompiler after a step.
CommitCompiler(fc) ==
    /\ mInitialized' = fc.mInitialized
    /\ mLLFunction' = fc.mLLFunction
    /\ mAllocBlock' = fc.mAllocBlock
    /\ nodesToCompile' = fc.nodesToCompile
    /\ enqueued' = fc.enqueued
    /\ mNodeCompilers' = fc.mNodeCompilers
    /\ calls' = fc.calls
    /\ result' = fc.result

\* The function and the edit state stay as they are during a compilation.
FunctionVars == <<mType, inputDataConnections, outputDataConnections,
                  inputExecConnections, outputExecConnections, status, last,
                  edits, mLastEditTime, ContextVars, ModuleVars, CliVars>>

\* compileFunction is called on a function wired by connectData and
\* connectExec, no edit in progress.
CompileInit ==
    /\ \E types \in FunctionShapes :
         \E e0 \in ExecWirings(types, "n0"), e1 \in ExecWirings(types, "n1"),
            e2 \in ExecWirings(types, "n2"), e3 \in ExecWirings(types, "n3"),
            d0 \in DataWirings(types, "n0"), d1 \in DataWirings(types, "n1"),
            d2 \in DataWirings(types, "n2"), d3 \in DataWirings(types, "n3") :
             /\ mType = types
             /\ outputExecConnections =
                    [n0 |-> e0, n1 |-> e1, n2 |-> e2, n3 |-> e3]
             /\ inputDataConnections =
                    [n0 |-> d0, n1 |-> d1, n2 |-> d2, n3 |-> d3]
             /\ inputExecConnections =
                    DualInputExec(types,
                        [n0 |-> e0, n1 |-> e1, n2 |-> e2, n3 |-> e3])
             /\ outputDataConnections =
                    DualOutputData(types,
                        [n0 |-> d0, n1 |-> d1, n2 |-> d2, n3 |-> d3])
    /\ status = "running"
    /\ last = NoCall
    /\ edits = 0
    /\ mLastEditTime = 0
    /\ NewContext("")
    /\ NoModuleContents
    /\ NoCommandLine
    /\ pc = "constructed"
    /\ validated = FALSE
    /\ mInitialized = NewCompiler.mInitialized
    /\ mLLFunction = NewCompiler.mLLFunction
    /\ mAllocBlock = NewCompiler.mAllocBlock
    /\ nodesToCompile = NewCompiler.nodesToCompile
    /\ enqueued = NewCompiler.enqueued
    /\ mNodeCompilers = NewCompiler.mNodeCompilers
    /\ calls = NewCompiler.calls
    /\ result = NewCompiler.result
    /\ previous = [done |-> FALSE, calls |-> << >>]

\* compiler.initialize(validate); compileFunction returns its error.
Initialize ==
    \E validate \in BOOLEAN :
        LET fc == initialize(Compiler, Graph, validate)
        IN  /\ pc = "constructed"
            /\ CommitCompiler(fc)
            /\ validated' = validate
            /\ pc' = IF fc.result = "ok" THEN "initialized" ELSE "returned"
            /\ UNCHANGED <<FunctionVars, previous>>

\* compiler.compile() enters its loop.
Compile ==
    /\ pc = "initialized"
    /\ CommitCompiler(compile(Compiler, Graph))
    /\ pc' = "compiling"
    /\ UNCHANGED <<FunctionVars, validated, previous>>

\* One pass of the loop; compile() returns on an error.
CompileNode ==
    \E fails \in {{}} \cup {{n} : n \in FunctionNodes} :
        LET fc == compileNode(Compiler, Graph, fails)
        IN  /\ pc = "compiling"
            /\ nodesToCompile # << >>
            /\ CommitCompiler(fc)
            /\ pc' = IF fc.result = "ok" THEN "compiling" ELSE "returned"
            /\ UNCHANGED <<FunctionVars, validated, previous>>

\* The loop is left with the deque empty; compile() returns.
FinishCompile ==
    /\ pc = "compiling"
    /\ nodesToCompile = << >>
    /\ CommitCompiler(finishCompile(Compiler, Graph))
    /\ pc' = "returned"
    /\ UNCHANGED <<FunctionVars, validated, previous>>

\* compileFunction is called on the same function once more, with a
\* FunctionCompiler of its own.
CompileFunctionAgain ==
    /\ pc = "returned"
    /\ result = "ok"
    /\ ~previous.done
    /\ previous' = [done |-> TRUE, calls |-> calls]
    /\ CommitCompiler(NewCompiler)
    /\ validated' = FALSE
    /\ pc' = "constructed"
    /\ UNCHANGED FunctionVars

CompileNext ==
    \/ Initialize
    \/ Compile
    \/ CompileNode
    \/ FinishCompile
    \/ CompileFunctionAgain

CompileSpec == CompileInit /\ [][CompileNext]_vars

\* ------------------------------------------------------------------ Context

\* The full names used: the built-in lang module, a module made with
\* newGraphModule, a module of the workspace, and a name nothing resolves.
ModuleNames == {"lang", "test/main", "test/lib", "notarealmodule"}

\* The workspace on disk: the full name of each module stored in it and the
\* dependencies its JSON lists.
Workspace == ("test/lib" :> {"lang"})

\* The workPath a Context is constructed with: none, or the workspace.
WorkPaths == {"", "/workspace"}

\* The Context as one value ctx, threaded through its operations.
Ctx ==
    [mWorkspacePath |-> mWorkspacePath,
     mModules       |-> mModules,
     mLangModule    |-> mLangModule,
     mDependencies  |-> mDependencies,
     mCompileCache  |-> mCompileCache,
     toFill         |-> toFill]

\* What a Context operation returns: the Context after it and whether the
\* Result is success (for a bool: the value).
CtxRet(ctx, ok) == [ctx |-> ctx, ok |-> ok]

\* Context::moduleByFullName: the module, nullptr if none was found.
moduleByFullName(ctx, fullModuleName) ==
    IF fullModuleName \in Range(ctx.mModules) THEN fullModuleName ELSE NoNode

\* Context::modules()
modules(ctx) == ctx.mModules

\* Context::addModule: true if the module was added (it did not exist
\* before); a module named lang becomes the lang module.
addModule(ctx, fullName, deps) ==
    IF moduleByFullName(ctx, fullName) # NoNode
    THEN CtxRet(ctx, FALSE)
    ELSE CtxRet([ctx EXCEPT !.mModules = Append(@, fullName),
                            !.mLangModule = @ \/ fullName = "lang",
                            !.mDependencies = @ @@ (fullName :> deps)],
                TRUE)

\* Context::newGraphModule: a new GraphModule with the given full name and
\* no dependency, added to the Context.
newGraphModule(ctx, fullName) == addModule(ctx, fullName, {}).ctx

\* Context::loadModule: lang is built in and made on first use; a loaded
\* module is returned; otherwise the module is read from the workspace and
\* its dependencies are loaded with it.  depth bounds the walk of
\* dependencies by the number of names.
RECURSIVE LoadModule(_, _, _)
RECURSIVE LoadModules(_, _, _)
LoadModules(ctx, names, depth) ==
    IF names = {} THEN CtxRet(ctx, TRUE)
    ELSE LET name == CHOOSE x \in names : TRUE
             one  == LoadModule(ctx, name, depth)
             rest == LoadModules(one.ctx, names \ {name}, depth)
         IN  CtxRet(rest.ctx, one.ok /\ rest.ok)

LoadModule(ctx, name, depth) ==
    IF name = "lang"
    THEN IF ctx.mLangModule THEN CtxRet(ctx, TRUE)
         ELSE CtxRet(addModule(ctx, "lang", {}).ctx, TRUE)
    ELSE IF moduleByFullName(ctx, name) # NoNode THEN CtxRet(ctx, TRUE)
    ELSE IF ctx.mWorkspacePath = "" \/ name \notin DOMAIN Workspace
                                    \/ depth = 0
    THEN CtxRet(ctx, FALSE)
    ELSE LoadModules(addModule(ctx, name, Workspace[name]).ctx,
                     Workspace[name], depth - 1)

loadModule(ctx, name) == LoadModule(ctx, name, Cardinality(ModuleNames))

\* A mistaken addDependency that records the name whatever loadModule
\* returned.
addDependencyUnchecked(ctx, mod, newDepFullPath) ==
    CtxRet([loadModule(ctx, newDepFullPath).ctx
               EXCEPT !.mDependencies[mod] = @ \cup {newDepFullPath}],
           loadModule(ctx, newDepFullPath).ok)

\* ChiModule::addDependency on the loaded module mod: the dependency is
\* loaded into the Context, and recorded if that succeeded.
addDependency(ctx, mod, newDepFullPath) ==
    IF ~loadModule(ctx, newDepFullPath).ok
    THEN loadModule(ctx, newDepFullPath)
    ELSE CtxRet([loadModule(ctx, newDepFullPath).ctx
                    EXCEPT !.mDependencies[mod] = @ \cup {newDepFullPath}],
                TRUE)

\* ChiModule::removeDependency on the loaded module mod: true if the name
\* was a dependency.
removeDependency(ctx, mod, depName) ==
    CtxRet([ctx EXCEPT !.mDependencies[mod] = @ \ {depName}],
           depName \in ctx.mDependencies[mod])

\* What compileModule returns: the Context after it, whether the Result is
\* success, and whether the walk of the dependencies ran out of depth
\* (the call does not return).
CompileRet(ctx, ok, hung) == [ctx |-> ctx, ok |-> ok, hung |-> hung]

\* The depth no walk that returns can reach: a chain through every module.
MaxCompileDepth == Cardinality(ModuleNames) + 1

\* A mistaken walk that compiles and links a dependency without looking it
\* up in mCompileCache.
RECURSIVE CompileDependencyUncached(_, _, _, _)
RECURSIVE CompileDependenciesUncached(_, _, _, _)
CompileDependenciesUncached(ret, deps, link, depth) ==
    IF deps = {} THEN ret
    ELSE LET name == CHOOSE x \in deps : TRUE
         IN  CompileDependenciesUncached(
                 CompileDependencyUncached(ret, name, link, depth),
                 deps \ {name}, link, depth)

CompileDependencyUncached(ret, name, link, depth) ==
    IF depth = 0 THEN CompileRet(ret.ctx, FALSE, TRUE)
    ELSE LET here == CompileRet(
                         [ret.ctx EXCEPT !.mCompileCache = @ \cup {name},
                                         !.toFill = Append(@, name)],
                         ret.ok, ret.hung)
         IN  IF link /\ Len(here.ctx.toFill) < 2 * MaxCompileDepth
             THEN CompileDependenciesUncached(
                      here, ret.ctx.mDependencies[name], link, depth - 1)
             ELSE here

\* The walk of compileModule: a module found in mCompileCache is neither
\* compiled nor linked again; otherwise it is entered in the cache, compiled
\* and linked into the output, and with LinkDependencies its dependencies
\* are walked in turn.
RECURSIVE CompileDependency(_, _, _, _)
RECURSIVE CompileDependencies(_, _, _, _)
CompileDependencies(ret, deps, link, depth) ==
    IF deps = {} THEN ret
    ELSE LET name == CHOOSE x \in deps : TRUE
         IN  CompileDependencies(CompileDependency(ret, name, link, depth),
                                 deps \ {name}, link, depth)

CompileDependency(ret, name, link, depth) ==
    IF name \in ret.ctx.mCompileCache THEN ret
    ELSE IF depth = 0 THEN CompileRet(ret.ctx, FALSE, TRUE)
    ELSE LET here == CompileRet(
                         [ret.ctx EXCEPT !.mCompileCache = @ \cup {name},
                                         !.toFill = Append(@, name)],
                         ret.ok, ret.hung)
         IN  IF link
             THEN CompileDependencies(here, ret.ctx.mDependencies[name],
                                      link, depth - 1)
             ELSE here

\* Context::compileModule(fullName, settings, toFill): no side effect if the
\* module is not loaded; otherwise a fresh output and a fresh mCompileCache,
\* then the walk from the module.  link: settings has LinkDependencies.
compileModule(ctx, fullName, link) ==
    IF moduleByFullName(ctx, fullName) = NoNode
    THEN CompileRet(ctx, FALSE, FALSE)
    ELSE CompileDependency(
             CompileRet([ctx EXCEPT !.mCompileCache = {}, !.toFill = << >>],
                        TRUE, FALSE),
             fullName, link, MaxCompileDepth)


\* The Context after a call.
CommitContext(ctx) ==
    /\ mWorkspacePath' = ctx.mWorkspacePath
    /\ mModules' = ctx.mModules
    /\ mLangModule' = ctx.mLangModule
    /\ mDependencies' = ctx.mDependencies
    /\ mCompileCache' = ctx.mCompileCache
    /\ toFill' = ctx.toFill

\* What the Context calls leave alone: the function and the compiler.
NotContextVars == <<mType, inputDataConnections, outputDataConnections,
                    inputExecConnections, outputExecConnections, status,
                    edits, mLastEditTime, CompilerVars, ModuleVars,
                    CliVars>>

\* Context c{workPath}; the function of the nodes is as constructed.
ContextInit ==
    /\ \E workPath \in WorkPaths : NewContext(workPath)
    /\ NoModuleContents
    /\ NoCommandLine
    /\ mType = InitialTypes
    /\ inputDataConnections = [n \in Nodes |-> NewInputData(mType[n])]
    /\ outputDataConnections = [n \in Nodes |-> NewOutputData(mType[n])]
    /\ inputExecConnections = [n \in Nodes |-> NewInputExec(mType[n])]
    /\ outputExecConnections = [n \in Nodes |-> NewOutputExec(mType[n])]
    /\ status = "running"
    /\ last = NoCall
    /\ edits = 0
    /\ mLastEditTime = 0
    /\ NoCompiler

NewGraphModule ==
    \E fullName \in {"test/main", "test/lib"} :
        /\ moduleByFullName(Ctx, fullName) = NoNode
        /\ CommitContext(newGraphModule(Ctx, fullName))
        /\ last' = Call("newGraphModule", TRUE, "", FALSE, FALSE)
        /\ UNCHANGED NotContextVars

AddModule ==
    \E fullName \in {"test/lib", "lang"} :
        LET ret == addModule(Ctx, fullName, {})
        IN  /\ CommitContext(ret.ctx)
            /\ last' = Call("addModule", ret.ok, "", FALSE, FALSE)
            /\ UNCHANGED NotContextVars

LoadModuleCall ==
    \E name \in ModuleNames :
        LET ret == loadModule(Ctx, name)
        IN  /\ CommitContext(ret.ctx)
            /\ last' = Call("loadModule", ret.ok, "", FALSE, FALSE)
            /\ UNCHANGED NotContextVars

AddDependency ==
    \E mod \in Range(mModules) \ {"lang"}, name \in ModuleNames :
        LET ret == addDependency(Ctx, mod, name)
        IN  /\ CommitContext(ret.ctx)
            /\ last' = Call("addDependency", ret.ok, "", FALSE, FALSE)
            /\ UNCHANGED NotContextVars

RemoveDependency ==
    \E mod \in Range(mModules) \ {"lang"}, name \in ModuleNames :
        LET ret == removeDependency(Ctx, mod, name)
        IN  /\ CommitContext(ret.ctx)
            /\ last' = Call("removeDependency", ret.ok, "", FALSE, FALSE)
            /\ UNCHANGED NotContextVars

CompileModule ==
    \E fullName \in ModuleNames, link \in BOOLEAN :
        LET ret == compileModule(Ctx, fullName, link)
        IN  /\ CommitContext(ret.ctx)
            /\ last' = Call("compileModule", ret.ok, "", FALSE, FALSE)
            /\ status' = IF ret.hung THEN "hung" ELSE status
            /\ UNCHANGED <<mType, inputDataConnections,
                           outputDataConnections, inputExecConnections,
                           outputExecConnections, edits, mLastEditTime,
                           CompilerVars, ModuleVars, CliVars>>

ContextNext ==
    \/ NewGraphModule
    \/ AddModule
    \/ LoadModuleCall
    \/ AddDependency
    \/ RemoveDependency
    \/ CompileModule

ContextSpec == ContextInit /\ [][ContextNext]_vars

\* -------------------------------------------------------------- GraphModule

\* The struct names and function names used on the module.
StructNames == {"hello", "world"}

FunctionNames == {"mysexyfunc", "main"}

\* The module as one value m, threaded through its operations.
Mod == [functions |-> mFunctions, structs |-> mStructs]

\* What a module operation returns: the module after it and the bool it
\* reports (inserted, or whether something was removed).
ModRet(m, ok) == [m |-> m, ok |-> ok]

\* GraphModule::structFromName / functionFromName: nullptr if there is none.
structFromName(m, name) ==
    IF name \in Range(m.structs) THEN name ELSE NoNode

functionFromName(m, name) ==
    IF name \in Range(m.functions) THEN name ELSE NoNode

\* GraphModule::typeNames: one type per struct.
typeNames(m) == m.structs

\* The node types of the structs: _make_<S> and _break_<S> for each.
RECURSIVE StructNodeTypeNames(_)
StructNodeTypeNames(structs) ==
    IF structs = << >> THEN << >>
    ELSE <<"_make_" \o Head(structs), "_break_" \o Head(structs)>>
             \o StructNodeTypeNames(Tail(structs))

\* GraphModule::nodeTypeNames: one node type per function, two per struct.
nodeTypeNames(m) == m.functions \o StructNodeTypeNames(m.structs)

\* A mistaken getOrCreateStruct that does not look for an existing struct.
getOrCreateStructAlways(m, name) ==
    ModRet([m EXCEPT !.structs = Append(@, name)], TRUE)

\* GraphModule::getOrCreateStruct: the existing struct of that name with
\* inserted = false, or a new struct at the end with inserted = true.
getOrCreateStruct(m, name) ==
    IF structFromName(m, name) # NoNode
    THEN ModRet(m, FALSE)
    ELSE ModRet([m EXCEPT !.structs = Append(@, name)], TRUE)

\* GraphModule::removeStruct(GraphStruct&): the struct leaves the module.
removeStructByReference(m, str) ==
    [m EXCEPT !.structs = SelectSeq(@, LAMBDA s : s # str)]

\* GraphModule::removeStruct(name): false if there is no such struct.
removeStruct(m, name) ==
    IF structFromName(m, name) = NoNode
    THEN ModRet(m, FALSE)
    ELSE ModRet(removeStructByReference(m, name), TRUE)

\* A mistaken getOrCreateFunction that does not look for an existing one.
getOrCreateFunctionAlways(m, name) ==
    ModRet([m EXCEPT !.functions = Append(@, name)], TRUE)

\* GraphModule::getOrCreateFunction: the existing function of that name with
\* inserted = false, or a new function at the end with inserted = true.
getOrCreateFunction(m, name) ==
    IF functionFromName(m, name) # NoNode
    THEN ModRet(m, FALSE)
    ELSE ModRet([m EXCEPT !.functions = Append(@, name)], TRUE)

\* GraphModule::removeFunction(GraphFunction&)
removeFunctionByReference(m, func) ==
    [m EXCEPT !.functions = SelectSeq(@, LAMBDA f : f # func)]

\* GraphModule::removeFunction(name): false if there is no such function.
removeFunction(m, name) ==
    IF functionFromName(m, name) = NoNode
    THEN ModRet(m, FALSE)
    ELSE ModRet(removeFunctionByReference(m, name), TRUE)

\* The module after a call.
CommitModule(m) ==
    /\ mFunctions' = m.functions
    /\ mStructs' = m.structs

\* What the module calls leave alone.
NotModuleVars == <<mType, inputDataConnections, outputDataConnections,
                   inputExecConnections, outputExecConnections, status,
                   edits, mLastEditTime, CompilerVars, ContextVars, CliVars>>

\* Context c; auto gMod = c.newGraphModule("test/main");
ModuleInit ==
    /\ mWorkspacePath = ""
    /\ mModules = <<"test/main">>
    /\ mLangModule = FALSE
    /\ mDependencies = ("test/main" :> {})
    /\ mCompileCache = {}
    /\ toFill = << >>
    /\ NoModuleContents
    /\ NoCommandLine
    /\ mType = InitialTypes
    /\ inputDataConnections = [n \in Nodes |-> NewInputData(mType[n])]
    /\ outputDataConnections = [n \in Nodes |-> NewOutputData(mType[n])]
    /\ inputExecConnections = [n \in Nodes |-> NewInputExec(mType[n])]
    /\ outputExecConnections = [n \in Nodes |-> NewOutputExec(mType[n])]
    /\ status = "running"
    /\ last = NoCall
    /\ edits = 0
    /\ mLastEditTime = 0
    /\ NoCompiler

GetOrCreateStruct ==
    \E name \in StructNames :
        LET ret == getOrCreateStruct(Mod, name)
        IN  /\ CommitModule(ret.m)
            /\ last' = Call("getOrCreateStruct", ret.ok, "", FALSE, FALSE)
            /\ UNCHANGED NotModuleVars

RemoveStruct ==
    \E name \in StructNames :
        LET ret == removeStruct(Mod, name)
        IN  /\ CommitModule(ret.m)
            /\ last' = Call("removeStruct", ret.ok, "", FALSE, FALSE)
            /\ UNCHANGED NotModuleVars

RemoveStructByReference ==
    \E str \in Range(mStructs) :
        /\ CommitModule(removeStructByReference(Mod, str))
        /\ last' = Call("removeStruct(GraphStruct&)", TRUE, "", FALSE, FALSE)
        /\ UNCHANGED NotModuleVars

GetOrCreateFunction ==
    \E name \in FunctionNames :
        LET ret == getOrCreateFunction(Mod, name)
        IN  /\ CommitModule(ret.m)
            /\ last' = Call("getOrCreateFunction", ret.ok, "", FALSE, FALSE)
            /\ UNCHANGED NotModuleVars

RemoveFunction ==
    \E name \in FunctionNames :
        LET ret == removeFunction(Mod, name)
        IN  /\ CommitModule(ret.m)
            /\ last' = Call("removeFunction", ret.ok, "", FALSE, FALSE)
            /\ UNCHANGED NotModuleVars

RemoveFunctionByReference ==
    \E func \in Range(mFunctions) :
        /\ CommitModule(removeFunctionByReference(Mod, func))
        /\ last' = Call("removeFunction(GraphFunction&)", TRUE, "", FALSE,
                        FALSE)
        /\ UNCHANGED NotModuleVars

ModuleNext ==
    \/ GetOrCreateStruct
    \/ RemoveStruct
    \/ RemoveStructByReference
    \/ GetOrCreateFunction
    \/ RemoveFunction
    \/ RemoveFunctionByReference

ModuleSpec == ModuleInit /\ [][ModuleNext]_vars

\* ------------------------------------------------------------ chi, main()

\* The longest command line explored, in arguments after argv[0].
MaxArgs == 3

\* The directories that exist besides StartDir.
Dirs == {"/dir"}

\* The commands main dispatches to.
Commands == {"compile", "run", "interpret", "get"}

\* The words a command line is made of.
Tokens == {"-C", "--change-dir", "bogus"} \cup Dirs \cup Commands

\* general.add_options(): each option with its long and its short name.
OptionsDescription ==
    { [long |-> "change-dir", short |-> "C"],
      [long |-> "command",    short |-> ""],
      [long |-> "subargs",    short |-> ""] }

\* option_description::key: the long name when there is one.
OptionKey(d) == IF d.long # "" THEN d.long ELSE d.short

\* The options a token names: --<long> or -<short>.
OptionsNamed(token) ==
    {d \in OptionsDescription :
        \/ token = "--" \o d.long
        \/ (d.short # "" /\ token = "-" \o d.short)}

\* A parsed option: the key it is stored under and its value.
ParsedOption(key, value) == [key |-> key, value |-> value]

\* command_line_parser::run from args[k] on: an option takes the next token
\* as its value and it is an error if there is none or if it names an option
\* itself; any other token is positional, the first one "command" and the
\* rest "subargs".  thrown: an exception left the parser.
RECURSIVE ParseCommandLine(_, _, _, _)
ParseCommandLine(args, k, npos, parsed) ==
    IF k > Len(args) THEN [options |-> parsed, thrown |-> FALSE]
    ELSE IF OptionsNamed(args[k]) # {}
    THEN IF k = Len(args) \/ OptionsNamed(args[k + 1]) # {}
         THEN [options |-> parsed, thrown |-> TRUE]
         ELSE ParseCommandLine(
                  args, k + 2, npos,
                  Append(parsed,
                         ParsedOption(
                             OptionKey(CHOOSE d \in OptionsNamed(args[k]) :
                                           TRUE),
                             args[k + 1])))
    ELSE ParseCommandLine(
             args, k + 1, npos + 1,
             Append(parsed,
                    ParsedOption(IF npos = 0 THEN "command" ELSE "subargs",
                                 args[k])))

\* po::store from options[k] on: each value goes into the map under the key
\* of its option; a second value for an option that holds one string is an
\* error.
RECURSIVE Store(_, _, _)
Store(options, k, map) ==
    IF k > Len(options) THEN [vm |-> map, thrown |-> FALSE]
    ELSE IF options[k].key \in DOMAIN map /\ options[k].key # "subargs"
    THEN [vm |-> map, thrown |-> TRUE]
    ELSE Store(options, k + 1,
               IF options[k].key \in DOMAIN map
               THEN [map EXCEPT ![options[k].key] =
                                    Append(@, options[k].value)]
               ELSE map @@ (options[k].key :> <<options[k].value>>))

\* vm.count(key) of the variables_map: 1 if the key is in the map.
Count(map, key) == IF key \in DOMAIN map THEN 1 ELSE 0

\* vm[key].as<std::string>()
AsString(map, key) == map[key][1]

\* The key main asks the map for to find the directory to change to.
ChangeDirKey == "C"

\* What the state outside the command line is left as.
NotCliVars == <<mType, inputDataConnections, outputDataConnections,
                inputExecConnections, outputExecConnections, status, last,
                edits, mLastEditTime, CompilerVars, ContextVars, ModuleVars>>

\* chi is started with a command line.
CliInit ==
    /\ \E n \in 0 .. MaxArgs : argv \in [1 .. n -> Tokens]
    /\ vm = << >>
    /\ cwd = StartDir
    /\ mainPc = "start"
    /\ dispatched = ""
    /\ exitCode = NoExit
    /\ NewContext("")
    /\ NoModuleContents
    /\ mType = InitialTypes
    /\ inputDataConnections = [n \in Nodes |-> NewInputData(mType[n])]
    /\ outputDataConnections = [n \in Nodes |-> NewOutputData(mType[n])]
    /\ inputExecConnections = [n \in Nodes |-> NewInputExec(mType[n])]
    /\ outputExecConnections = [n \in Nodes |-> NewOutputExec(mType[n])]
    /\ status = "running"
    /\ last = NoCall
    /\ edits = 0
    /\ mLastEditTime = 0
    /\ NoCompiler

\* Lines 55-63: the command line is parsed and stored; an exception leaves
\* main and ends the process.
ParseAndStore ==
    LET parsed == ParseCommandLine(argv, 1, 0, << >>)
        stored == Store(parsed.options, 1, << >>)
    IN  /\ mainPc = "start"
        /\ IF parsed.thrown \/ stored.thrown
           THEN /\ mainPc' = "terminated"
                /\ vm' = vm
           ELSE /\ mainPc' = "parsed"
                /\ vm' = stored.vm
        /\ UNCHANGED <<argv, cwd, dispatched, exitCode, NotCliVars>>

\* Line 65: the working directory is changed if the map has the key; a
\* directory that does not exist makes current_path throw.
ChangeDir ==
    /\ mainPc = "parsed"
    /\ IF Count(vm, ChangeDirKey) = 1
       THEN IF AsString(vm, ChangeDirKey) \in Dirs
            THEN /\ cwd' = AsString(vm, ChangeDirKey)
                 /\ mainPc' = "changed"
            ELSE /\ cwd' = cwd
                 /\ mainPc' = "terminated"
       ELSE /\ cwd' = cwd
            /\ mainPc' = "changed"
    /\ UNCHANGED <<argv, vm, dispatched, exitCode, NotCliVars>>

\* Lines 67-70: without a command the help is printed and main returns 1.
NoCommand ==
    /\ mainPc = "changed"
    /\ Count(vm, "command") # 1
    /\ mainPc' = "returned"
    /\ exitCode' = 1
    /\ UNCHANGED <<argv, vm, cwd, dispatched, NotCliVars>>

\* Lines 72-81: the command is called and main returns what it returns.
Dispatch ==
    /\ mainPc = "changed"
    /\ Count(vm, "command") = 1
    /\ AsString(vm, "command") \in Commands
    /\ dispatched' = AsString(vm, "command")
    /\ mainPc' = "returned"
    /\ exitCode' \in {0, 1}
    /\ UNCHANGED <<argv, vm, cwd, NotCliVars>>

\* Lines 84-85: any other command is reported and main returns 1.
UnrecognizedCommand ==
    /\ mainPc = "changed"
    /\ Count(vm, "command") = 1
    /\ AsString(vm, "command") \notin Commands
    /\ mainPc' = "returned"
    /\ exitCode' = 1
    /\ UNCHANGED <<argv, vm, cwd, dispatched, NotCliVars>>

CliNext ==
    \/ ParseAndStore
    \/ ChangeDir
    \/ NoCommand
    \/ Dispatch
    \/ UnrecognizedCommand

CliSpec == CliInit /\ [][CliNext]_vars

\* ------------------------------------------------------------- properties

Running == status = "running"

GraphVars == <<mType, inputDataConnections, outputDataConnections,
               inputExecConnections, outputExecConnections>>

\* A.output_data[o] contains (B, i) in g.
OutHas(g, A, o, B, i) ==
    /\ o < Len(g.outD[A])
    /\ Conn(B, i) \in Range(g.outD[A][o + 1])

\* B.input_data[i] = (A, o) in g.
InHas(g, A, o, B, i) ==
    /\ i < Len(g.inD[B])
    /\ g.inD[B][i + 1] = Conn(A, o)

\* A.output_exec[o] = (B, i) in g.
ExecOutHas(g, A, o, B, i) ==
    /\ o < Len(g.outE[A])
    /\ g.outE[A][o + 1] = Conn(B, i)

\* The positions of (A, o) in B.input_exec[i] in g.
ExecInPositions(g, A, o, B, i) ==
    IF i < Len(g.inE[B])
    THEN {k \in 1 .. Len(g.inE[B][i + 1]) : g.inE[B][i + 1][k] = Conn(A, o)}
    ELSE {}

\* Some data edge is stored on both of its endpoints.
SomeDataEdge ==
    \E A \in Nodes, B \in Nodes, o \in ConnIDs, i \in ConnIDs :
        OutHas(Graph, A, o, B, i) /\ InHas(Graph, A, o, B, i)

\* Some exec edge is stored on both of its endpoints.
SomeExecEdge ==
    \E A \in Nodes, B \in Nodes, o \in ConnIDs, i \in ConnIDs :
        /\ ExecOutHas(Graph, A, o, B, i)
        /\ ExecInPositions(Graph, A, o, B, i) # {}

\* C1: data-edge symmetry.  After any sequence of connectData,
\* disconnectData and setType calls (and the exec calls), for all nodes A, B
\* and indices o, i: A.output_data[o] contains (B, i) if and only if
\* B.input_data[i] exists and equals (A, o).
C1_DataEdgeSymmetry ==
    Running =>
        \A A \in Nodes, B \in Nodes, o \in ConnIDs, i \in ConnIDs :
            OutHas(Graph, A, o, B, i) <=> InHas(Graph, A, o, B, i)

\* C2: edit replacement for data.  In every reachable state, for every call
\* connectData(L, o, R, i) with both indices in range, matching types and
\* R.input_data[i] already holding a source (P, p): the call succeeds,
\* afterwards R.input_data[i] = (L, o) and L.output_data[o] contains (R, i),
\* and, when (P, p) is another source than (L, o), P.output_data[p] no longer
\* contains (R, i).
C2_EditReplacement ==
    Running =>
        \A L \in Nodes, R \in Nodes, o \in ConnIDs, i \in ConnIDs :
            ( /\ o < Len(outputDataConnections[L])
              /\ i < Len(inputDataConnections[R])
              /\ NodeTypes[mType[L]].dataOutputs[o + 1]
                     = NodeTypes[mType[R]].dataInputs[i + 1]
              /\ inputDataConnections[R][i + 1] # NullConn )
            =>
            LET prev == inputDataConnections[R][i + 1]
                res  == connectData(Graph, L, o, R, i)
            IN  /\ res.ok
                /\ InHas(res.g, L, o, R, i)
                /\ OutHas(res.g, L, o, R, i)
                /\ prev # Conn(L, o) => ~OutHas(res.g, prev.node, prev.id, R, i)

\* C3: a failing connectData changes nothing.  Every step made by a
\* connectData call whose Result carries an error entry (E22, E23, E24, or
\* the error of the disconnect of the previous occupant) leaves the types
\* and all four connection vectors of every node as they were.
C3_FailedConnectDataChangesNothing ==
    [][(last'.op = "connectData" /\ ~last'.ok) => UNCHANGED GraphVars]_vars

\* A connectData call has failed while disconnecting the previous occupant
\* of the input, in a graph that has data edges.
C3_Witness ==
    /\ last.op = "connectData"
    /\ ~last.ok
    /\ last.replaced
    /\ last.code = "EUKN"
    /\ SomeDataEdge

\* C4: execution-edge symmetry.  After any sequence of connectExec,
\* disconnectExec and setType calls, for all nodes A, B and indices o, i:
\* A.output_exec[o] = (B, i) if and only if B.input_exec[i] exists and
\* contains (A, o), and it contains it at most once.
C4_ExecEdgeSymmetry ==
    Running =>
        \A A \in Nodes, B \in Nodes, o \in ConnIDs, i \in ConnIDs :
            /\ ExecOutHas(Graph, A, o, B, i)
                   <=> ExecInPositions(Graph, A, o, B, i) # {}
            /\ Cardinality(ExecInPositions(Graph, A, o, B, i)) <= 1

\* A disconnectExec call has removed an edge from a graph in which another
\* exec edge is left.
C4_Witness ==
    /\ last.op = "disconnectExec"
    /\ last.ok
    /\ SomeExecEdge

\* The vector v without the entries equal to c.
Without(v, c) == SelectSeq(v, LAMBDA e : e # c)

\* C5: exec replacement is output-side only.  In every reachable state, for
\* every call connectExec(L, o, R, i) that succeeds when L.output_exec[o]
\* held (R', i'): afterwards L.output_exec[o] = (R, i), R.input_exec[i] is
\* its old content (without (L, o)) in its old order followed by (L, o), and,
\* when (R', i') is another port than (R, i), R'.input_exec[i'] no longer
\* contains (L, o).
C5_ExecReplacementOutputSideOnly ==
    Running =>
        \A L \in Nodes, R \in Nodes, o \in ConnIDs, i \in ConnIDs :
            LET res == connectExec(Graph, L, o, R, i)
            IN  ( /\ o < Len(outputExecConnections[L])
                  /\ outputExecConnections[L][o + 1] # NullConn
                  /\ res.ok )
                =>
                LET prev == outputExecConnections[L][o + 1]
                IN  /\ ExecOutHas(res.g, L, o, R, i)
                    /\ res.g.inE[R][i + 1] =
                           Append(Without(inputExecConnections[R][i + 1],
                                          Conn(L, o)),
                                  Conn(L, o))
                    /\ prev # Conn(R, i) =>
                           ExecInPositions(res.g, L, o, prev.node, prev.id) = {}

\* A connectExec call has replaced the target of an output, and an exec input
\* is fed by two sources.
C5_Witness ==
    /\ last.op = "connectExec"
    /\ last.ok
    /\ last.replaced
    /\ \E n \in Nodes :
           /\ Len(inputExecConnections[n]) > 0
           /\ Len(inputExecConnections[n][1]) = 2

\* The data port of edge end n (index id in list ports of the old type)
\* survives in the list of the new type with the same DataType.
DataPortKept(old, new, id) ==
    /\ id < Len(new)
    /\ id < Len(old)
    /\ old[id + 1] = new[id + 1]

\* C6: setType edge preservation.  In every reachable state, for every call
\* setType(N, T') that returns: every data edge incident to N whose port on
\* N exists in T' with the same DataType is still stored on both endpoints,
\* every exec edge whose port on N exists in T' is still stored on both
\* endpoints, and every other edge incident to N is stored on neither.
C6_SetTypeEdgePreservation ==
    Running =>
        \A N \in Nodes, T \in TypeNames, ndebug \in BOOLEAN :
            LET s   == setType(Graph, N, T, ndebug)
                old == NodeTypes[mType[N]]
                new == NodeTypes[T]
            IN  s.out = "ok" =>
                \A A \in Nodes, B \in Nodes, o \in ConnIDs, i \in ConnIDs :
                    /\ ( /\ A = N \/ B = N
                         /\ OutHas(Graph, A, o, B, i)
                         /\ InHas(Graph, A, o, B, i) )
                       =>
                       IF /\ A = N => DataPortKept(old.dataOutputs,
                                                   new.dataOutputs, o)
                          /\ B = N => DataPortKept(old.dataInputs,
                                                   new.dataInputs, i)
                       THEN OutHas(s.g, A, o, B, i) /\ InHas(s.g, A, o, B, i)
                       ELSE ~OutHas(s.g, A, o, B, i) /\ ~InHas(s.g, A, o, B, i)
                    /\ ( /\ A = N \/ B = N
                         /\ ExecOutHas(Graph, A, o, B, i)
                         /\ ExecInPositions(Graph, A, o, B, i) # {} )
                       =>
                       IF /\ A = N => o < Len(new.execOutputs)
                          /\ B = N => i < Len(new.execInputs)
                       THEN /\ ExecOutHas(s.g, A, o, B, i)
                            /\ ExecInPositions(s.g, A, o, B, i) # {}
                       ELSE /\ ~ExecOutHas(s.g, A, o, B, i)
                            /\ ExecInPositions(s.g, A, o, B, i) = {}

\* disconnectData(L, o, R) is asked for an edge that is missing: o is out of
\* range, or L.output_data[o] has no entry for R, or the entry found for R
\* names an input slot of R that does not exist or does not hold (L, o).
MissingDataEdge(L, o, R) ==
    \/ o >= Len(outputDataConnections[L])
    \/ LET slot == outputDataConnections[L][o + 1]
           iter == FindFirst(slot, {c \in Range(slot) : c.node = R})
       IN  \/ iter = 0
           \/ ~InHas(Graph, L, o, R, slot[iter].id)

\* C7: disconnectData on a missing edge is an error with no effect.  In
\* every reachable state, every call disconnectData(L, o, R) for a missing
\* edge returns a Result with an error entry and leaves the types and the
\* connection vectors of every node unchanged.
C7_DisconnectDataMissingEdge ==
    Running =>
        \A L \in Nodes, R \in Nodes, o \in ConnIDs :
            MissingDataEdge(L, o, R) =>
                LET res == disconnectData(Graph, L, o, R)
                IN  ~res.ok /\ res.g = Graph

\* A disconnectData call has failed with EUKN on a graph that has data
\* edges.
C7_Witness ==
    /\ last.op = "disconnectData"
    /\ ~last.ok
    /\ last.code = "EUKN"
    /\ SomeDataEdge

\* C8: disconnectExec on a missing edge is an error with no effect.  In
\* every reachable state, every call disconnectExec(L, o) with o out of
\* range for L.output_exec, or with L.output_exec[o] empty, returns a Result
\* with an error entry, leaves all connection vectors unchanged, and reads no
\* slot that does not exist and follows no empty target reference.
C8_DisconnectExecMissingEdge ==
    Running =>
        \A L \in Nodes, o \in ConnIDs :
            ( \/ o >= Len(outputExecConnections[L])
              \/ outputExecConnections[L][o + 1] = NullConn )
            =>
            LET res == disconnectExec(Graph, L, o)
            IN  ~res.ok /\ res.g = Graph /\ ~res.ub

\* C9: arity invariant.  After construction and after any sequence of edit
\* calls, for every node the lengths of input_data, output_data, input_exec
\* and output_exec equal the numbers of data inputs, data outputs, exec
\* inputs and exec outputs of its current NodeType, and the exec lengths of
\* a pure node are 0.
C9_ArityInvariant ==
    Running =>
        \A n \in Nodes :
            LET t == NodeTypes[mType[n]]
            IN  /\ Len(inputDataConnections[n]) = Len(t.dataInputs)
                /\ Len(outputDataConnections[n]) = Len(t.dataOutputs)
                /\ Len(inputExecConnections[n]) = Len(t.execInputs)
                /\ Len(outputExecConnections[n]) = Len(t.execOutputs)
                /\ t.pure => /\ Len(inputExecConnections[n]) = 0
                             /\ Len(outputExecConnections[n]) = 0

\* A setType call has returned on a graph with data edges, leaving a node
\* with fewer data inputs than it was constructed with.
C9_Witness ==
    /\ last.op = "setType"
    /\ last.ok
    /\ SomeDataEdge
    /\ \E n \in Nodes :
           Len(inputDataConnections[n]) < Len(NewInputData(InitialTypes[n]))

\* C10: type-match invariant.  After any sequence of connectData,
\* disconnectData and setType calls, every data edge (A, o) -> (B, i) stored
\* on both endpoints connects ports that exist in the current NodeTypes of A
\* and B and have equal DataTypes.
C10_TypeMatch ==
    Running =>
        \A A \in Nodes, B \in Nodes, o \in ConnIDs, i \in ConnIDs :
            (OutHas(Graph, A, o, B, i) /\ InHas(Graph, A, o, B, i)) =>
                /\ o < Len(NodeTypes[mType[A]].dataOutputs)
                /\ i < Len(NodeTypes[mType[B]].dataInputs)
                /\ NodeTypes[mType[A]].dataOutputs[o + 1]
                       = NodeTypes[mType[B]].dataInputs[i + 1]

\* C11: every successful connectData, connectExec, disconnectData,
\* disconnectExec and setType call updates the last-edit timestamp of the
\* module that owns the edited nodes: after the call the timestamp is the
\* time of that call, later than the timestamp before it.
C11_SuccessfulEditUpdatesTimestamp ==
    [][(edits' # edits /\ last'.ok /\ status' = "running") =>
           (mLastEditTime' = Now /\ mLastEditTime' > mLastEditTime)]_vars

\* A second or later edit, a setType that returned, has set the timestamp.
C11_Witness ==
    /\ last.op = "setType"
    /\ last.ok
    /\ edits >= 2
    /\ mLastEditTime = edits

\* -------------------------------------------- properties of the compilation

\* Some pure node feeds itself through pure nodes.
PureCycle ==
    \E n \in FunctionNodes :
        /\ NodeTypeOf(Graph, n).pure
        /\ n \in PureClosure(Graph, PureSources(Graph, n))

\* initialize has returned an error for a failed validation or for a
\* missing entry node.
InitializeRefused ==
    /\ mInitialized
    /\ \/ validated /\ ~validateFunction(Graph)
       \/ entryNode(Graph) = NoNode

\* C12: no IR on failed initialization.  When initialize(validate = true)
\* is run on a function whose validation yields an error (e.g. a pure
\* cycle), or initialize is run on a function with no entry node, it returns
\* the error with no LLVM function, no alloc block and no alloca created, and
\* compileFunction returns without calling compile: the deque stays empty, no
\* NodeCompiler exists and no stage 1 or stage 2 call is made.
C12_NoIROnFailedInitialization ==
    InitializeRefused =>
        /\ pc = "returned"
        /\ result = "error"
        /\ ~mLLFunction
        /\ ~mAllocBlock.created
        /\ mAllocBlock.allocas = {}
        /\ mAllocBlock.br = << >>
        /\ nodesToCompile = << >>
        /\ DOMAIN mNodeCompilers = {}
        /\ calls = << >>

\* initialize has refused a function that has an entry node and a pure cycle.
C12_Witness ==
    /\ InitializeRefused
    /\ validated
    /\ entryNode(Graph) # NoNode
    /\ PureCycle
    /\ pc = "returned"

\* The (node, input exec id) pairs reached from those of S by following
\* output exec connections, S included.
RECURSIVE PairClosure(_)
PairClosure(S) ==
    LET T == S \cup (UNION {Range(outputExecConnections[c.node]) : c \in S}
                         \ {NullConn})
    IN  IF T = S THEN S ELSE PairClosure(T)

\* The pairs reachable from (entry, 0).
ReachablePairs == PairClosure({Conn(entryNode(Graph), 0)})

\* The positions in calls of the stage 2 calls for (node, id).
Stage2Calls(node, id) ==
    {k \in 1 .. Len(calls) :
        /\ calls[k].stage = "stage2"
        /\ calls[k].node = node
        /\ calls[k].id = id}

\* compile() has run to its end and returned success.
CompileSucceeded ==
    /\ pc = "returned"
    /\ result = "ok"
    /\ mAllocBlock.br # << >>

\* In a successful run every reachable pair of a non-pure node has had
\* stage 2 once, and no other pair of a non-pure node has had it.
EachReachablePairOnce ==
    \A n \in FunctionNodes, i \in ConnIDs :
        ~NodeTypeOf(Graph, n).pure =>
            Cardinality(Stage2Calls(n, i)) =
                IF Conn(n, i) \in ReachablePairs THEN 1 ELSE 0

\* The pair at the front of the deque is compiled for its id already.
FrontCompiled ==
    /\ pc = "compiling"
    /\ nodesToCompile # << >>
    /\ nodesToCompile[1].node \in DOMAIN mNodeCompilers
    /\ nodesToCompile[1].id
           \in mNodeCompilers[nodesToCompile[1].node].compiled

\* C13: exactly-once compilation.  In a successful run of compile, stage 2
\* of a non-pure node for an input exec id is invoked exactly once for every
\* pair reachable from (entry, 0) along output exec connections and never for
\* an unreachable pair; and a pair dequeued when already compiled for that id
\* is popped with no call made, no NodeCompiler changed and nothing emitted.
C13_ExactlyOnceCompilation ==
    [][/\ CompileSucceeded' => EachReachablePairOnce'
       /\ FrontCompiled =>
              /\ nodesToCompile' = Tail(nodesToCompile)
              /\ UNCHANGED <<calls, mNodeCompilers, mAllocBlock, result>>]_vars

\* A successful run in which both outputs of a branch lead to the same pair,
\* which is dequeued twice.
C13_Witness ==
    /\ CompileSucceeded
    /\ mType["n2"] = "branch"
    /\ outputExecConnections["n0"] = <<Conn("n2", 0)>>
    /\ outputExecConnections["n2"] = <<Conn("n3", 0), Conn("n3", 0)>>
    /\ Cardinality(Stage2Calls("n3", 0)) = 1

\* C14: stage ordering.  For every (node, input exec id) of a non-pure node
\* that compile brings to stage 2, (entry, 0) included, a stage 1 request for
\* the same pair has been issued earlier in the same compilation: stage 2
\* is never invoked on a pair still in NotStarted.
C14_StageOrdering ==
    \A k \in 1 .. Len(calls) :
        (calls[k].stage = "stage2" /\ ~NodeTypeOf(Graph, calls[k].node).pure) =>
            \E j \in 1 .. (k - 1) :
                /\ calls[j].stage = "stage1"
                /\ calls[j].node = calls[k].node
                /\ calls[j].id = calls[k].id

RECURSIVE PairsOf(_)
PairsOf(v) ==
    IF v = << >> THEN << >>
    ELSE <<Conn(Head(v).node, Head(v).id)>> \o PairsOf(Tail(v))

NonPureStage2 ==
    PairsOf(SelectSeq(calls,
                LAMBDA c : c.stage = "stage2" /\ ~NodeTypeOf(Graph, c.node).pure))

\* The elements of v outside seen, each at its first occurrence.
RECURSIVE KeepNew(_, _)
KeepNew(v, seen) ==
    IF v = << >> THEN << >>
    ELSE IF Head(v) \in seen THEN KeepNew(Tail(v), seen)
    ELSE <<Head(v)>> \o KeepNew(Tail(v), seen \cup {Head(v)})

\* The output exec connections of the pairs of level, pair by pair in its
\* order and port by port in ascending index.
RECURSIVE SuccessorsOf(_)
SuccessorsOf(level) ==
    IF level = << >> THEN << >>
    ELSE outputExecConnections[Head(level).node] \o SuccessorsOf(Tail(level))

\* Breadth-first order: a level, then the pairs its successors add.
RECURSIVE BfsFrom(_, _)
BfsFrom(level, seen) ==
    IF level = << >> THEN << >>
    ELSE level \o BfsFrom(KeepNew(SuccessorsOf(level), seen),
                          seen \cup Range(SuccessorsOf(level)))

BfsOrder ==
    IF entryNode(Graph) = NoNode THEN << >>
    ELSE BfsFrom(<<Conn(entryNode(Graph), 0)>>,
                 {Conn(entryNode(Graph), 0), NullConn})

\* The number of exec edges on a shortest path from the pairs of S, which
\* are d edges from (entry, 0), to the pair c; -1 when there is none.
RECURSIVE DistFrom(_, _, _, _)
DistFrom(S, seen, c, d) ==
    IF c \in S THEN d
    ELSE IF S = {} THEN -1
    ELSE DistFrom((UNION {Range(outputExecConnections[x.node]) : x \in S})
                      \ (seen \cup S \cup {NullConn}),
                  seen \cup S, c, d + 1)

Dist(c) ==
    IF entryNode(Graph) = NoNode THEN -1
    ELSE DistFrom({Conn(entryNode(Graph), 0)}, {}, c, 0)

PureStage2Calls(p, n) ==
    {k \in 1 .. Len(calls) :
        /\ calls[k].stage = "stage2"
        /\ calls[k].node = p
        /\ calls[k].user = n}

\* C17: pure emission count.  For every non-pure consumer N compiled for an
\* input exec id, stage 2 of each pure node in dependentPuresRecursive(N) is
\* invoked exactly once for that compilation of N: at a successful return,
\* the stage 2 calls on a pure dependency made for N are as many as the
\* input exec ids N was compiled for, not one more for each time N was
\* visited as an exec successor.
C17_PureEmissionCount ==
    CompileSucceeded =>
        \A n \in DOMAIN mNodeCompilers :
            \A p \in Range(dependentPuresRecursive(Graph, n)) :
                Cardinality(PureStage2Calls(p, n)) =
                    Cardinality(mNodeCompilers[n].compiled)

\* C18: pure just-in-time ordering.  Between the stage 2 calls of the pure
\* dependencies of a consumer N and stage 2 of N itself no stage 2 of a pure
\* node that feeds a different consumer is invoked: the last pure stage 2
\* call before N's stage 2 was made for N.
C18_PureJustInTime ==
    \A k \in 1 .. Len(calls) :
        (/\ calls[k].stage = "stage2"
         /\ ~NodeTypeOf(Graph, calls[k].node).pure
         /\ dependentPuresRecursive(Graph, calls[k].node) # << >>) =>
            \A j \in 1 .. (k - 1) :
                (/\ calls[j].stage = "stage2"
                 /\ NodeTypeOf(Graph, calls[j].node).pure
                 /\ \A m \in (j + 1) .. (k - 1) :
                        ~(/\ calls[m].stage = "stage2"
                          /\ NodeTypeOf(Graph, calls[m].node).pure)) =>
                    calls[j].user = calls[k].node

\* ------------------------------------------------ properties of the Context

\* C19: a Context contains the lang module in every reachable state:
\* immediately after construction, and after any sequence of newGraphModule,
\* addDependency, removeDependency, addModule and loadModule calls,
\* moduleByFullName("lang") is non-null and modules() includes it.
C19_LangAlwaysLoaded ==
    /\ moduleByFullName(Ctx, "lang") # NoNode
    /\ "lang" \in Range(modules(Ctx))

\* The name resolves to a module: lang is built in, a loaded module is
\* found, a module of the workspace is read.
Resolves(name) ==
    \/ name = "lang"
    \/ name \in Range(mModules)
    \/ mWorkspacePath # "" /\ name \in DOMAIN Workspace

\* C20: dependency editing.  addDependency(name) on a module succeeds only if
\* name resolves to a module, and then that module is loaded in the Context
\* and name is in the dependency set; when name cannot be resolved it returns
\* an error and leaves the Context's module list and the dependency set
\* unchanged; removeDependency(name) removes name from the dependency set and
\* never unloads a module from the Context.
C20_DependencyEditing ==
    \A mod \in Range(mModules), name \in ModuleNames :
        /\ addDependency(Ctx, mod, name).ok =>
               /\ Resolves(name)
               /\ name \in Range(addDependency(Ctx, mod, name).ctx.mModules)
               /\ name \in addDependency(Ctx, mod, name).ctx.mDependencies[mod]
        /\ ~Resolves(name) =>
               /\ ~addDependency(Ctx, mod, name).ok
               /\ addDependency(Ctx, mod, name).ctx = Ctx
        /\ name \notin removeDependency(Ctx, mod, name).ctx.mDependencies[mod]
        /\ removeDependency(Ctx, mod, name).ctx.mModules = mModules
        /\ removeDependency(Ctx, mod, name).ctx.mLangModule = mLangModule

\* lang was loaded as a dependency of test/main and removed from its
\* dependencies again; the last addDependency named a module that does not
\* resolve and failed.
C20_Witness ==
    /\ last.op = "addDependency"
    /\ ~last.ok
    /\ mModules = <<"test/main", "lang">>
    /\ mDependencies["test/main"] = {}

\* ------------------------------------------- properties of the GraphModule

\* The node type names a struct named S brings.
StructNodeTypes(S) == {"_make_" \o S, "_break_" \o S}

\* Module m holds nothing of a struct named S.
NoStruct(m, S) ==
    /\ structFromName(m, S) = NoNode
    /\ S \notin Range(typeNames(m))
    /\ Range(nodeTypeNames(m)) \cap StructNodeTypes(S) = {}

\* Module m holds exactly one struct named S, with its type name and its
\* two node types.
OneStruct(m, S) ==
    /\ structFromName(m, S) = S
    /\ Cardinality({k \in 1 .. Len(m.structs) : m.structs[k] = S}) = 1
    /\ Cardinality({k \in 1 .. Len(typeNames(m)) : typeNames(m)[k] = S}) = 1
    /\ \A t \in StructNodeTypes(S) :
           Cardinality({k \in 1 .. Len(nodeTypeNames(m)) :
                            nodeTypeNames(m)[k] = t}) = 1

\* Removing S from module b gave module a: nothing else changed.
OnlyStructRemoved(b, a, S) ==
    /\ NoStruct(a, S)
    /\ Len(a.structs) = Len(b.structs) - 1
    /\ Len(typeNames(a)) = Len(typeNames(b)) - 1
    /\ Len(nodeTypeNames(a)) = Len(nodeTypeNames(b)) - 2
    /\ Range(nodeTypeNames(a)) = Range(nodeTypeNames(b)) \ StructNodeTypes(S)
    /\ a.functions = b.functions

\* C21: getOrCreateStruct(S) on a module without S creates exactly one
\* struct, the type name S and the two node types _make_S and _break_S and
\* reports inserted = true; a second getOrCreateStruct(S) returns the same
\* struct with inserted = false and adds nothing; removeStruct by name or by
\* reference removes the struct, its type name and both node types; a
\* further removeStruct(S) by name returns false and changes nothing.
C21_StructLifecycle ==
    \A S \in StructNames :
        LET first  == getOrCreateStruct(Mod, S)
            second == getOrCreateStruct(first.m, S)
            byName == removeStruct(first.m, S)
            byRef  == removeStructByReference(first.m, S)
            again  == removeStruct(byName.m, S)
        IN  /\ structFromName(Mod, S) = NoNode =>
                /\ first.ok
                /\ OneStruct(first.m, S)
                /\ OnlyStructRemoved(first.m, Mod, S)
                /\ typeNames(first.m) = Append(typeNames(Mod), S)
            /\ ~second.ok /\ second.m = first.m
            /\ byName.ok /\ OnlyStructRemoved(first.m, byName.m, S)
            /\ byRef = byName.m
            /\ ~again.ok /\ again.m = byName.m

\* getOrCreateStruct was called for a struct the module already had, next
\* to another struct and a function.
C21_Witness ==
    /\ last.op = "getOrCreateStruct"
    /\ ~last.ok
    /\ Len(mStructs) = 2
    /\ Len(mFunctions) = 1

\* Module m holds nothing of a function named F.
NoFunction(m, F) ==
    /\ functionFromName(m, F) = NoNode
    /\ F \notin Range(nodeTypeNames(m))

\* Module m holds exactly one function named F and one node type named F.
OneFunction(m, F) ==
    /\ functionFromName(m, F) = F
    /\ Cardinality({k \in 1 .. Len(m.functions) : m.functions[k] = F}) = 1
    /\ Cardinality({k \in 1 .. Len(nodeTypeNames(m)) :
                        nodeTypeNames(m)[k] = F}) = 1

\* Removing F from module b gave module a: nothing else changed.
OnlyFunctionRemoved(b, a, F) ==
    /\ NoFunction(a, F)
    /\ Len(a.functions) = Len(b.functions) - 1
    /\ Len(nodeTypeNames(a)) = Len(nodeTypeNames(b)) - 1
    /\ Range(nodeTypeNames(a)) = Range(nodeTypeNames(b)) \ {F}
    /\ a.structs = b.structs

\* C22: getOrCreateFunction(F, ...) on a module without F creates exactly
\* one function and exactly one node type named F and reports inserted =
\* true; a second call with the same name returns the existing function with
\* inserted = false and adds nothing; removeFunction by name or by reference
\* removes the function and its node type, so functionFromName(F) is null;
\* a further removeFunction(F) by name returns false and changes nothing.
C22_FunctionLifecycle ==
    \A F \in FunctionNames :
        LET first  == getOrCreateFunction(Mod, F)
            second == getOrCreateFunction(first.m, F)
            byName == removeFunction(first.m, F)
            byRef  == removeFunctionByReference(first.m, F)
            again  == removeFunction(byName.m, F)
        IN  /\ functionFromName(Mod, F) = NoNode =>
                /\ first.ok
                /\ OneFunction(first.m, F)
                /\ OnlyFunctionRemoved(first.m, Mod, F)
            /\ ~second.ok /\ second.m = first.m
            /\ byName.ok /\ OnlyFunctionRemoved(first.m, byName.m, F)
            /\ byRef = byName.m
            /\ ~again.ok /\ again.m = byName.m

\* removeFunction by name was called for a function already removed, after
\* a getOrCreateFunction had made another function next to a struct.
C22_Witness ==
    /\ last.op = "removeFunction"
    /\ ~last.ok
    /\ Len(mFunctions) = 1
    /\ Len(mStructs) = 1

\* The modules main and lib depend on each other and both on lang: lang is
\* reached from main along two paths, and main and lib form a cycle.
DiamondAndCycle ==
    /\ {"test/main", "test/lib", "lang"} \subseteq Range(mModules)
    /\ mDependencies["test/main"] = {"test/lib", "lang"}
    /\ mDependencies["test/lib"] = {"test/main", "lang"}

\* C23: during one compileModule call with LinkDependencies, every
\* transitive dependency, also one reachable along two paths and also the
\* modules of a dependency cycle, is compiled and linked into the result at
\* most once, and the recursive compilation terminates.
C23_CompileOncePerInvocation ==
    /\ status # "hung"
    /\ \A j, k \in 1 .. Len(toFill) : toFill[j] = toFill[k] => j = k
    /\ \A name \in Range(mModules) :
           LET ret == compileModule(Ctx, name, TRUE)
           IN  /\ ~ret.hung
               /\ \A j, k \in 1 .. Len(ret.ctx.toFill) :
                      ret.ctx.toFill[j] = ret.ctx.toFill[k] => j = k

\* compileModule linked main, lib and lang into one result although lang is
\* a dependency of both and main and lib depend on each other.
C23_Witness ==
    /\ last.op = "compileModule"
    /\ last.ok
    /\ DiamondAndCycle
    /\ Len(toFill) = 3
    /\ toFill[1] = "test/main"

\* Stage 1 of the pair c was called before call k.
StagedBefore(c, k) ==
    \E j \in 1 .. k - 1 :
        /\ calls[j].stage = "stage1"
        /\ calls[j].node = c.node
        /\ calls[j].id = c.id

\* C24: when compile() invokes stage 2 on a non-pure node N, the output
\* blocks it passes have one entry per output exec port of N, entry k being
\* the first block of the node connected to port k for the input exec id
\* stored on that connection, and stage 1 of that pair has completed before
\* N's stage 2 starts.
C24_BranchTargetsInPortOrder ==
    \A k \in 1 .. Len(calls) :
        (calls[k].stage = "stage2" /\ ~NodeTypeOf(Graph, calls[k].node).pure)
        => LET N == calls[k].node
           IN  /\ Len(calls[k].blocks) = Len(NodeTypeOf(Graph, N).execOutputs)
               /\ Len(calls[k].blocks) = Len(outputExecConnections[N])
               /\ \A p \in 1 .. Len(calls[k].blocks) :
                      /\ outputExecConnections[N][p] # NullConn
                      /\ calls[k].blocks[p] = outputExecConnections[N][p]
                      /\ StagedBefore(outputExecConnections[N][p], k)

\* Stage 2 was invoked on a node with two output exec ports that lead to
\* different input exec ids.
C24_Witness ==
    \E k \in 1 .. Len(calls) :
        /\ calls[k].stage = "stage2"
        /\ Len(calls[k].blocks) = 2
        /\ calls[k].blocks[1].id # calls[k].blocks[2].id
        /\ calls[k].blocks[1] # NullConn
        /\ calls[k].blocks[2] # NullConn

\* node n is of a pure type.
IsPure(n) == AllNodeTypes[mType[n]].pure

\* C25: execution edges never touch a pure node.  After any sequence of
\* node constructions, connectExec and setType calls no pure node is the
\* source or the target of an exec edge, connectExec with a pure endpoint
\* fails with an out-of-range error (E22 or E23) and changes nothing, and
\* every node on the worklist of compile() is non-pure.
C25_NoExecEdgeAtPureNode ==
    Running =>
        /\ \A n \in DOMAIN mType :
               /\ IsPure(n) => /\ inputExecConnections[n] = << >>
                               /\ outputExecConnections[n] = << >>
               /\ \A p \in 1 .. Len(outputExecConnections[n]) :
                      outputExecConnections[n][p].node # NoNode
                      => ~IsPure(outputExecConnections[n][p].node)
               /\ \A i \in 1 .. Len(inputExecConnections[n]) :
                      \A c \in Range(inputExecConnections[n][i]) :
                          ~IsPure(c.node)
        /\ \A lhs \in DOMAIN mType, rhs \in DOMAIN mType :
               (IsPure(lhs) \/ IsPure(rhs)) =>
                   \A lhsConnID \in ConnIDs, rhsConnID \in ConnIDs :
                       LET res == connectExec(Graph, lhs, lhsConnID, rhs,
                                              rhsConnID)
                       IN  /\ ~res.ok
                           /\ ~res.ub
                           /\ res.code \in {"E22", "E23"}
                           /\ res.g = Graph
        /\ \A k \in 1 .. Len(nodesToCompile) :
               ~IsPure(nodesToCompile[k].node)

\* connectExec was refused for a range error after setType had made the two
\* call nodes pure: both of its endpoints were pure.
C25_Witness ==
    /\ last.op = "connectExec"
    /\ ~last.ok
    /\ last.code \in {"E22", "E23"}
    /\ \A n \in Nodes : IsPure(n)

\* A reachable non-pure node of a function that passes the validator has an
\* output exec port without a target.
UnconnectedReachableOutput ==
    /\ validateFunction(Graph)
    /\ \E c \in ReachablePairs :
           \E p \in 1 .. Len(outputExecConnections[c.node]) :
               outputExecConnections[c.node][p] = NullConn

\* C26: unconnected exec outputs are safe to compile.  For every function
\* that passes the validator but has a reachable non-pure node with an
\* output exec port without a target, compile() never follows the empty
\* target of that port: it returns an error Result or completes.
C26_UnconnectedExecOutputSafe ==
    (entryNode(Graph) # NoNode /\ UnconnectedReachableOutput)
    => result # "undefined"

\* The pairs whose stage 2 has succeeded, by the NodeCompilers.
CompiledPairs ==
    {c \in {Conn(n, id) : n \in DOMAIN mNodeCompilers, id \in ConnIDs} :
        c.id \in mNodeCompilers[c.node].compiled}

\* The sum of the output exec port counts of the pairs of S.
RECURSIVE OutputPortSum(_)
OutputPortSum(S) ==
    IF S = {} THEN 0
    ELSE LET c == CHOOSE x \in S : TRUE
         IN  Len(NodeTypeOf(Graph, c.node).execOutputs)
                 + OutputPortSum(S \ {c})

\* The largest number of output exec ports of a node type.
MaxExecOutputs ==
    CHOOSE m \in 0 .. MaxArity :
        /\ \E t \in DOMAIN AllNodeTypes : Len(AllNodeTypes[t].execOutputs) = m
        /\ \A t \in DOMAIN AllNodeTypes : Len(AllNodeTypes[t].execOutputs) <= m

\* A natural number that every pass of the loop of compile() makes smaller:
\* the length of the deque, plus MaxExecOutputs + 1 for every pair that is
\* not compiled yet.  A pass either pops a compiled pair, or compiles one
\* and puts at most MaxExecOutputs pairs on the deque in its place.
LoopVariant ==
    Len(nodesToCompile)
    + (MaxExecOutputs + 1)
      * Cardinality({Conn(n, id) : n \in FunctionNodes, id \in ConnIDs}
                    \ CompiledPairs)

\* The pairs put on the deque stay within the bound.
EnqueuedWithinBound == enqueued <= 1 + OutputPortSum(CompiledPairs)

\* C27: worklist termination.  For every function graph, also one whose
\* exec edges form a cycle and that is compiled without validation, the loop
\* of compile() comes to its end (every pass that does not return makes
\* LoopVariant smaller), with the deque empty when compile() returns
\* success, and the number of pairs ever put on the deque is at most 1 plus
\* the sum of the output exec port counts of the distinct (node, input exec
\* id) pairs compiled.
C27_WorklistTermination ==
    /\ [](EnqueuedWithinBound)
    /\ []((pc = "returned" /\ result = "ok") => nodesToCompile = << >>)
    /\ [][(pc = "compiling" /\ pc' = "compiling")
              => (0 <= LoopVariant' /\ LoopVariant' < LoopVariant)]_vars

\* compile() has returned success, without validation, on a function whose
\* exec edges form a cycle; a pair was put on the deque a second time.
C27_Witness ==
    /\ pc = "returned"
    /\ result = "ok"
    /\ ~validated
    /\ nodesToCompile = << >>
    /\ \E n \in DOMAIN mType : n \in ExecClosure(Graph, ExecSuccessors(Graph, n))
    /\ enqueued > Cardinality(CompiledPairs \cap ReachablePairs)

\* C28: connect/disconnect round trip.  In every state, for every
\* connectData(L, o, R, i) that succeeds on an unoccupied R.input_data[i],
\* the following disconnectData(L, o, R) succeeds and removes exactly the
\* edge just added: the connection vectors of all nodes are back to their
\* values before the connect, also when L.output_data[o] already had an
\* edge to another input port of R.
C28_ConnectDisconnectRoundTrip ==
    Running =>
        \A L \in Nodes, R \in Nodes, o \in ConnIDs, i \in ConnIDs :
            LET c == connectData(Graph, L, o, R, i)
                d == disconnectData(c.g, L, o, R)
            IN  (/\ i < Len(inputDataConnections[R])
                 /\ inputDataConnections[R][i + 1] = NullConn
                 /\ c.ok)
                => (d.ok /\ d.g = Graph)

\* Vector v holds no pair twice.
NoDuplicate(v) == \A j, k \in 1 .. Len(v) : v[j] = v[k] => j = k

\* C29: no duplicate edge entries.  After any sequence of connectData,
\* connectExec, disconnectData, disconnectExec and setType calls, also ones
\* that connect an edge that already exists, no output_data[o] list and no
\* input_exec[i] list holds the same (node, index) pair more than once.
C29_NoDuplicateEdgeEntries ==
    Running =>
        \A n \in Nodes :
            /\ \A o \in 1 .. Len(outputDataConnections[n]) :
                   NoDuplicate(outputDataConnections[n][o])
            /\ \A i \in 1 .. Len(inputExecConnections[n]) :
                   NoDuplicate(inputExecConnections[n][i])

\* ---------------------------------------------- properties of chi, main()

\* The command line contains -C <dir> for an existing directory.
ChangeDirRequested ==
    \E k \in 1 .. Len(argv) - 1 : argv[k] = "-C" /\ argv[k + 1] \in Dirs

\* The directory the command line asks for.
RequestedDir ==
    argv[(CHOOSE k \in 1 .. Len(argv) - 1 :
              argv[k] = "-C" /\ argv[k + 1] \in Dirs) + 1]

\* C30: when the command line contains -C <dir>, the working directory of
\* the process is <dir> before the selected command (compile, run,
\* interpret, get) is dispatched; when no command or an unrecognised
\* command is given, no command is dispatched and the exit code is 1.
C30_ChangeDirBeforeDispatch ==
    /\ (dispatched # "" /\ ChangeDirRequested) => cwd = RequestedDir
    /\ (mainPc = "returned"
        /\ (Count(vm, "command") # 1
            \/ AsString(vm, "command") \notin Commands))
       => (dispatched = "" /\ exitCode = 1)

====
